---- MODULE Spec2Model ----
(***************************************************************************)
(* Userspace WireGuard tunnel supervisor of createmyvpn                    *)
(* (src-tauri/src/wireguard/userspace.rs, config_parser.rs).               *)
(*                                                                         *)
(* Text is modelled as a sequence of one-character strings, so that trim,  *)
(* split and the number / base64 / address conversions are computed.       *)
(***************************************************************************)
EXTENDS Integers, Sequences, FiniteSets, TLC

\* ---------------------------------------------------------------- Option / Result

None == <<>>
Some(x) == <<x>>
IsSome(o) == o # <<>>
Unwrap(o) == o[1]

Ok(v) == [ok |-> TRUE, val |-> v]
Err(m) == [ok |-> FALSE, err |-> m]

\* ---------------------------------------------------------------- string primitives

IsWs(c) == c \in {" ", "\t"}

RECURSIVE TrimStart(_)
TrimStart(s) == IF s # <<>> /\ IsWs(Head(s)) THEN TrimStart(Tail(s)) ELSE s

RECURSIVE TrimEnd(_)
TrimEnd(s) ==
    IF s # <<>> /\ IsWs(s[Len(s)]) THEN TrimEnd(SubSeq(s, 1, Len(s) - 1)) ELSE s

Trim(s) == TrimEnd(TrimStart(s))

\* index of the first occurrence of c in s, 0 when absent
IndexOf(s, c) ==
    IF \E i \in 1..Len(s) : s[i] = c
    THEN CHOOSE i \in 1..Len(s) : s[i] = c /\ \A j \in 1..(i - 1) : s[j] # c
    ELSE 0

\* variant of SplitOnce: splits at the last occurrence of c
SplitOnce_Last(s, c) ==
    IF \A i \in 1..Len(s) : s[i] # c THEN None
    ELSE LET i == CHOOSE k \in 1..Len(s) : s[k] = c /\ \A j \in (k + 1)..Len(s) : s[j] # c
         IN  Some(<<SubSeq(s, 1, i - 1), SubSeq(s, i + 1, Len(s))>>)

SplitOnce(s, c) ==
    LET i == IndexOf(s, c)
    IN  IF i = 0 THEN None
        ELSE Some(<<SubSeq(s, 1, i - 1), SubSeq(s, i + 1, Len(s))>>)

RECURSIVE Split(_, _)
Split(s, c) ==
    LET i == IndexOf(s, c)
    IN  IF i = 0 THEN <<s>>
        ELSE <<SubSeq(s, 1, i - 1)>> \o Split(SubSeq(s, i + 1, Len(s)), c)

\* a text is a sequence of characters; its lines end with "\n"
RECURSIVE Unlines(_)
Unlines(ls) == IF ls = <<>> THEN <<>> ELSE Head(ls) \o <<"\n">> \o Unlines(Tail(ls))

StripCr(l) == IF l # <<>> /\ l[Len(l)] = "\r" THEN SubSeq(l, 1, Len(l) - 1) ELSE l

\* str::lines: pieces between "\n", a final empty piece dropped, a trailing "\r" removed
Lines(text) ==
    LET parts == Split(text, "\n")
        kept == IF parts[Len(parts)] = <<>> THEN SubSeq(parts, 1, Len(parts) - 1) ELSE parts
    IN  [k \in 1..Len(kept) |-> StripCr(kept[k])]

Contains(xs, x) == \E i \in 1..Len(xs) : xs[i] = x

\* ---------------------------------------------------------------- numbers

DigitChars == <<"0", "1", "2", "3", "4", "5", "6", "7", "8", "9">>
IsDigit(c) == \E i \in 1..10 : DigitChars[i] = c
DigitVal(c) == (CHOOSE i \in 1..10 : DigitChars[i] = c) - 1

RECURSIVE DecimalValue(_)
DecimalValue(s) ==
    IF s = <<>> THEN 0
    ELSE DecimalValue(SubSeq(s, 1, Len(s) - 1)) * 10 + DigitVal(s[Len(s)])

AllDigits(s) == \A i \in 1..Len(s) : IsDigit(s[i])

U16Max == 65535

\* variant of ParseU16: a value beyond 16 bits wraps around
ParseU16_Wrapping(s) ==
    LET body == IF s # <<>> /\ Head(s) = "+" THEN Tail(s) ELSE s
    IN  IF body = <<>> \/ ~AllDigits(body) THEN None
        ELSE Some(DecimalValue(body) % (U16Max + 1))

\* str::parse::<u16>: optional '+', at least one digit, no overflow
ParseU16(s) ==
    LET body == IF s # <<>> /\ Head(s) = "+" THEN Tail(s) ELSE s
    IN  IF body = <<>> \/ ~AllDigits(body) THEN None
        ELSE IF Len(body) > 5 /\ \E i \in 1..(Len(body) - 5) : body[i] # "0" THEN None
        ELSE IF DecimalValue(body) > U16Max THEN None
        ELSE Some(DecimalValue(body))

RECURSIVE FormatDecimal(_)
FormatDecimal(n) ==
    IF n < 10 THEN <<DigitChars[n + 1]>>
    ELSE FormatDecimal(n \div 10) \o <<DigitChars[(n % 10) + 1]>>

\* ---------------------------------------------------------------- socket address

\* one IPv4 octet: 1..3 digits, no leading zero, at most 255
ParseOctet(s) ==
    IF s = <<>> \/ Len(s) > 3 \/ ~AllDigits(s) THEN None
    ELSE IF Len(s) > 1 /\ Head(s) = "0" THEN None
    ELSE IF DecimalValue(s) > 255 THEN None
    ELSE Some(DecimalValue(s))

ParseIpv4(s) ==
    LET parts == Split(s, ".")
    IN  IF Len(parts) # 4 THEN None
        ELSE IF \E i \in 1..4 : ~IsSome(ParseOctet(parts[i])) THEN None
        ELSE Some([i \in 1..4 |-> Unwrap(ParseOctet(parts[i]))])

\* port of a socket address: decimal digits only, no sign, no overflow
ParsePort(s) ==
    IF s = <<>> \/ ~AllDigits(s) THEN None ELSE ParseU16(s)

HexChars ==
    <<"0", "1", "2", "3", "4", "5", "6", "7", "8", "9", "a", "b", "c", "d", "e", "f">>
HexUpper == <<"A", "B", "C", "D", "E", "F">>
IsHex(c) == (\E i \in 1..16 : HexChars[i] = c) \/ (\E i \in 1..6 : HexUpper[i] = c)
HexVal(c) ==
    IF \E i \in 1..16 : HexChars[i] = c
    THEN (CHOOSE i \in 1..16 : HexChars[i] = c) - 1
    ELSE (CHOOSE i \in 1..6 : HexUpper[i] = c) + 9

RECURSIVE HexValue(_)
HexValue(s) ==
    IF s = <<>> THEN 0
    ELSE HexValue(SubSeq(s, 1, Len(s) - 1)) * 16 + HexVal(s[Len(s)])

\* one IPv6 group: 1..4 hexadecimal digits
IsHexGroup(s) == s # <<>> /\ Len(s) <= 4 /\ \A i \in 1..Len(s) : IsHex(s[i])

\* the ':'-separated groups of a run without "::"; the empty run has no group
Groups(s) == IF s = <<>> THEN <<>> ELSE Split(s, ":")

\* position of the first "::" in s, 0 when absent
IndexOfGap(s) ==
    IF \E i \in 1..(Len(s) - 1) : s[i] = ":" /\ s[i + 1] = ":"
    THEN CHOOSE i \in 1..(Len(s) - 1) :
             /\ s[i] = ":" /\ s[i + 1] = ":"
             /\ \A j \in 1..(i - 1) : ~(s[j] = ":" /\ s[j + 1] = ":")
    ELSE 0

\* Ipv6Addr::from_str on the colon-hexadecimal forms: eight groups, or fewer with one
\* "::" standing for the missing zero groups (the dotted-quad tail is not modelled)
ParseIpv6(s) ==
    LET g == IndexOfGap(s)
        head == IF g = 0 THEN Groups(s) ELSE Groups(SubSeq(s, 1, g - 1))
        tail == IF g = 0 THEN <<>> ELSE Groups(SubSeq(s, g + 2, Len(s)))
        all == head \o tail
    IN  IF \E i \in 1..Len(all) : ~IsHexGroup(all[i]) THEN None
        ELSE IF g = 0 /\ Len(all) # 8 THEN None
        ELSE IF g # 0 /\ Len(all) > 7 THEN None
        ELSE Some([i \in 1..8 |->
                     IF i <= Len(head) THEN HexValue(head[i])
                     ELSE IF i > 8 - Len(tail) THEN HexValue(tail[i - (8 - Len(tail))])
                     ELSE 0])

\* SocketAddrV4::from_str: "a.b.c.d:port"
ParseSocketAddrV4(s) ==
    LET hp == SplitOnce(s, ":")
    IN  IF ~IsSome(hp) THEN None
        ELSE LET ip == ParseIpv4(Unwrap(hp)[1])
                 port == ParsePort(Unwrap(hp)[2])
             IN  IF IsSome(ip) /\ IsSome(port)
                 THEN Some([family |-> "v4", ip |-> Unwrap(ip), port |-> Unwrap(port)])
                 ELSE None

\* SocketAddrV6::from_str: "[addr]:port" (the %scope suffix is not modelled)
ParseSocketAddrV6(s) ==
    LET close == IndexOf(s, "]")
    IN  IF s = <<>> \/ Head(s) # "[" \/ close = 0 THEN None
        ELSE IF close + 1 > Len(s) \/ s[close + 1] # ":" THEN None
        ELSE LET ip == ParseIpv6(SubSeq(s, 2, close - 1))
                 port == ParsePort(SubSeq(s, close + 2, Len(s)))
             IN  IF IsSome(ip) /\ IsSome(port)
                 THEN Some([family |-> "v6", ip |-> Unwrap(ip), port |-> Unwrap(port)])
                 ELSE None

\* SocketAddr::from_str: the V4 form, else the V6 form
ParseSocketAddr(s) ==
    IF IsSome(ParseSocketAddrV4(s)) THEN ParseSocketAddrV4(s) ELSE ParseSocketAddrV6(s)

\* Ipv4Addr::to_string
IpToString(ip) ==
    FormatDecimal(ip[1]) \o <<".">> \o FormatDecimal(ip[2]) \o <<".">>
        \o FormatDecimal(ip[3]) \o <<".">> \o FormatDecimal(ip[4])

\* ---------------------------------------------------------------- base64 (STANDARD engine)

B64Alphabet ==
    <<"A", "B", "C", "D", "E", "F", "G", "H", "I", "J", "K", "L", "M", "N", "O", "P",
      "Q", "R", "S", "T", "U", "V", "W", "X", "Y", "Z", "a", "b", "c", "d", "e", "f",
      "g", "h", "i", "j", "k", "l", "m", "n", "o", "p", "q", "r", "s", "t", "u", "v",
      "w", "x", "y", "z", "0", "1", "2", "3", "4", "5", "6", "7", "8", "9", "+", "/">>

IsB64(c) == \E i \in 1..64 : B64Alphabet[i] = c
B64Val(c) == (CHOOSE i \in 1..64 : B64Alphabet[i] = c) - 1

\* number of trailing '=' characters
RECURSIVE PadCount(_)
PadCount(s) ==
    IF s # <<>> /\ s[Len(s)] = "=" THEN 1 + PadCount(SubSeq(s, 1, Len(s) - 1)) ELSE 0

\* bytes of the full 4-symbol groups of d, then of the 2- or 3-symbol tail
RECURSIVE B64Bytes(_)
B64Bytes(d) ==
    IF Len(d) >= 4 THEN
        LET n == B64Val(d[1]) * 262144 + B64Val(d[2]) * 4096
                 + B64Val(d[3]) * 64 + B64Val(d[4])
        IN  <<n \div 65536, (n \div 256) % 256, n % 256>> \o B64Bytes(SubSeq(d, 5, Len(d)))
    ELSE IF Len(d) = 3 THEN
        LET n == B64Val(d[1]) * 4096 + B64Val(d[2]) * 64 + B64Val(d[3])
        IN  <<n \div 1024, (n \div 4) % 256>>
    ELSE IF Len(d) = 2 THEN
        LET n == B64Val(d[1]) * 64 + B64Val(d[2])
        IN  <<n \div 16>>
    ELSE <<>>

\* general_purpose::STANDARD.decode: canonical padding required, no trailing bits
Base64Decode(s) ==
    LET p == PadCount(s)
        d == SubSeq(s, 1, Len(s) - p)
        r == Len(d) % 4
    IN  IF \E i \in 1..Len(d) : ~IsB64(d[i]) THEN Err("InvalidByte")
        ELSE IF r = 1 THEN Err("InvalidLength")
        ELSE IF (r = 0 /\ p # 0) \/ (r = 2 /\ p # 2) \/ (r = 3 /\ p # 1)
             THEN Err("InvalidPadding")
        ELSE IF (r = 2 /\ B64Val(d[Len(d)]) % 16 # 0) \/ (r = 3 /\ B64Val(d[Len(d)]) % 4 # 0)
             THEN Err("InvalidLastSymbol")
        ELSE Ok(B64Bytes(d))

\* symbols of the full 3-byte groups of b, then of the 1- or 2-byte tail with padding
RECURSIVE Base64Encode(_)
Base64Encode(b) ==
    IF Len(b) >= 3 THEN
        LET n == b[1] * 65536 + b[2] * 256 + b[3]
        IN  <<B64Alphabet[(n \div 262144) + 1], B64Alphabet[((n \div 4096) % 64) + 1],
              B64Alphabet[((n \div 64) % 64) + 1], B64Alphabet[(n % 64) + 1]>>
                \o Base64Encode(SubSeq(b, 4, Len(b)))
    ELSE IF Len(b) = 2 THEN
        LET n == (b[1] * 256 + b[2]) * 4
        IN  <<B64Alphabet[(n \div 4096) + 1], B64Alphabet[((n \div 64) % 64) + 1],
              B64Alphabet[(n % 64) + 1], "=">>
    ELSE IF Len(b) = 1 THEN
        LET n == b[1] * 16
        IN  <<B64Alphabet[(n \div 64) + 1], B64Alphabet[(n % 64) + 1], "=", "=">>
    ELSE <<>>

KeyLen == 32

\* variant of decode_key: the length of the decoded value is not looked at
decode_key_AnyLength(b64) ==
    LET bytes == Base64Decode(b64)
    IN  IF ~bytes.ok THEN Err("Failed to decode WireGuard key") ELSE Ok(bytes.val)

\* ParsedClientConfig::decode_key
decode_key(b64) ==
    LET bytes == Base64Decode(b64)
    IN  IF ~bytes.ok THEN Err("Failed to decode WireGuard key")
        ELSE IF Len(bytes.val) # KeyLen THEN Err("WireGuard key must be exactly 32 bytes")
        ELSE Ok(bytes.val)

\* ---------------------------------------------------------------- config parser

S_Interface == <<"[", "I", "n", "t", "e", "r", "f", "a", "c", "e", "]">>
S_Peer == <<"[", "P", "e", "e", "r", "]">>
K_PrivateKey == <<"P", "r", "i", "v", "a", "t", "e", "K", "e", "y">>
K_Address == <<"A", "d", "d", "r", "e", "s", "s">>
K_DNS == <<"D", "N", "S">>
K_PublicKey == <<"P", "u", "b", "l", "i", "c", "K", "e", "y">>
K_Endpoint == <<"E", "n", "d", "p", "o", "i", "n", "t">>
K_AllowedIPs == <<"A", "l", "l", "o", "w", "e", "d", "I", "P", "s">>
K_PersistentKeepalive ==
    <<"P", "e", "r", "s", "i", "s", "t", "e", "n", "t", "K", "e", "e", "p", "a", "l", "i", "v", "e">>

\* variant of ParseStart: Address starts out as the empty text
ParseStart_DefaultAddress ==
    [private_key |-> None, address |-> Some(<<>>), dns |-> None,
     server_public_key |-> None, endpoint_str |-> None, allowed_ips |-> <<>>,
     keepalive |-> None, section |-> <<>>]

\* the mutable locals of parse before the first line
ParseStart ==
    [private_key |-> None, address |-> None, dns |-> None, server_public_key |-> None,
     endpoint_str |-> None, allowed_ips |-> <<>>, keepalive |-> None, section |-> <<>>]

\* variant of TrimEach: the pieces are kept as they are
TrimEach_Verbatim(parts) == parts

TrimEach(parts) == [i \in 1..Len(parts) |-> Trim(parts[i])]

\* variant of ParseLine: every header is taken for the [Interface] or the [Peer] one,
\* whichever holds the key
ParseLine_AnySection(st, raw) ==
    LET line == Trim(raw)
    IN  IF line = <<>> \/ Head(line) = "#" THEN st
        ELSE IF Head(line) = "[" THEN [st EXCEPT !.section = line]
        ELSE
          LET kv == SplitOnce(line, "=")
          IN  IF ~IsSome(kv) THEN st
              ELSE
                LET key == Trim(Unwrap(kv)[1])
                    val == Trim(Unwrap(kv)[2])
                IN  IF st.section = <<>> THEN st
                    ELSE IF key = K_PrivateKey THEN [st EXCEPT !.private_key = Some(val)]
                    ELSE IF key = K_Address
                         THEN [st EXCEPT !.address = Some(Split(val, "/")[1])]
                    ELSE IF key = K_DNS THEN [st EXCEPT !.dns = Some(val)]
                    ELSE IF key = K_PublicKey THEN [st EXCEPT !.server_public_key = Some(val)]
                    ELSE IF key = K_Endpoint THEN [st EXCEPT !.endpoint_str = Some(val)]
                    ELSE IF key = K_AllowedIPs
                         THEN [st EXCEPT !.allowed_ips = @ \o TrimEach(Split(val, ","))]
                    ELSE IF key = K_PersistentKeepalive
                         THEN [st EXCEPT !.keepalive = ParseU16(val)]
                    ELSE st

\* one iteration of `for line in conf.lines()`
ParseLine(st, raw) ==
    LET line == Trim(raw)
    IN  IF line = <<>> \/ Head(line) = "#" THEN st
        ELSE IF Head(line) = "[" THEN [st EXCEPT !.section = line]
        ELSE
          LET kv == SplitOnce(line, "=")
          IN  IF ~IsSome(kv) THEN st
              ELSE
                LET key == Trim(Unwrap(kv)[1])
                    val == Trim(Unwrap(kv)[2])
                IN  IF st.section = S_Interface THEN
                        IF key = K_PrivateKey THEN [st EXCEPT !.private_key = Some(val)]
                        ELSE IF key = K_Address
                             THEN [st EXCEPT !.address = Some(Split(val, "/")[1])]
                        ELSE IF key = K_DNS THEN [st EXCEPT !.dns = Some(val)]
                        ELSE st
                    ELSE IF st.section = S_Peer THEN
                        IF key = K_PublicKey THEN [st EXCEPT !.server_public_key = Some(val)]
                        ELSE IF key = K_Endpoint THEN [st EXCEPT !.endpoint_str = Some(val)]
                        ELSE IF key = K_AllowedIPs
                             THEN [st EXCEPT !.allowed_ips = @ \o TrimEach(Split(val, ","))]
                        ELSE IF key = K_PersistentKeepalive
                             THEN [st EXCEPT !.keepalive = ParseU16(val)]
                        ELSE st
                    ELSE st

RECURSIVE ParseLines(_, _)
ParseLines(st, lines) ==
    IF lines = <<>> THEN st ELSE ParseLines(ParseLine(st, Head(lines)), Tail(lines))

\* ParsedClientConfig::parse; conf is the sequence of the text's lines
parse(conf) ==
    LET st == ParseLines(ParseStart, conf)
    IN  IF ~IsSome(st.private_key) THEN Err("Config missing [Interface] PrivateKey")
        ELSE IF ~IsSome(st.address) THEN Err("Config missing [Interface] Address")
        ELSE IF ~IsSome(st.server_public_key) THEN Err("Config missing [Peer] PublicKey")
        ELSE IF ~IsSome(st.endpoint_str) THEN Err("Config missing [Peer] Endpoint")
        ELSE IF ~IsSome(ParseSocketAddr(Unwrap(st.endpoint_str)))
             THEN Err("Invalid endpoint address")
        ELSE Ok([private_key_b64 |-> Unwrap(st.private_key),
                 vpn_address |-> Unwrap(st.address),
                 dns |-> st.dns,
                 server_public_key_b64 |-> Unwrap(st.server_public_key),
                 endpoint |-> Unwrap(ParseSocketAddr(Unwrap(st.endpoint_str))),
                 allowed_ips |-> st.allowed_ips,
                 persistent_keepalive |-> st.keepalive])

\* ---------------------------------------------------------------- connect inputs

Line(key, val) == key \o <<" ", "=", " ">> \o val

TestPrivateKey ==
    <<"y", "A", "n", "z", "5", "T", "F", "+", "l", "X", "X", "J", "t", "e", "1", "4",
      "t", "j", "i", "3", "z", "l", "M", "N", "q", "+", "h", "d", "2", "r", "Y", "U",
      "I", "g", "J", "B", "g", "B", "3", "f", "B", "m", "k", "=">>
TestPublicKey ==
    <<"x", "T", "I", "B", "A", "5", "r", "b", "o", "U", "v", "n", "H", "4", "h", "t",
      "o", "d", "j", "b", "6", "e", "6", "9", "7", "Q", "j", "L", "E", "R", "t", "1",
      "N", "A", "B", "4", "m", "Z", "q", "p", "8", "D", "g", "=">>
\* 16 bytes, not 32
ShortKey ==
    <<"A", "A", "A", "A", "A", "A", "A", "A", "A", "A", "A", "A", "A", "A", "A", "A",
      "A", "A", "A", "A", "A", "A", "=", "=">>

FULL_TUNNEL == <<"0", ".", "0", ".", "0", ".", "0", "/", "0">>
HALF_LOW == <<"0", ".", "0", ".", "0", ".", "0", "/", "1">>
HALF_HIGH == <<"1", "2", "8", ".", "0", ".", "0", ".", "0", "/", "1">>
SplitCidrs == <<"1", "0", ".", "0", ".", "0", ".", "0", "/", "8">>
EndpointText == <<"1", ".", "2", ".", "3", ".", "4", ":", "5", "1", "8", "2", "0">>

\* the config text of the parser's tests, with the given key and AllowedIPs values
ConfigText(privKey, allowed) ==
    << S_Interface,
       Line(K_PrivateKey, privKey),
       Line(K_Address, <<"1", "0", ".", "8", ".", "0", ".", "2", "/", "3", "2">>),
       Line(K_DNS, <<"1", ".", "1", ".", "1", ".", "1">>),
       <<>>,
       S_Peer,
       Line(K_PublicKey, TestPublicKey),
       Line(K_Endpoint, EndpointText),
       Line(K_AllowedIPs, allowed),
       Line(K_PersistentKeepalive, <<"2", "5">>) >>

\* invalid base64: '!' is outside the alphabet
BadKey == <<"n", "o", "t", "-", "b", "a", "s", "e", "6", "4", "!", "!", "!">>

\* Endpoint values: IPv4 with port, IPv4 alone, a host name, IPv6 with port (twice),
\* and a port beyond u16
EndpointTexts ==
    { EndpointText,
      <<"1", ".", "2", ".", "3", ".", "4">>,
      <<"v", "p", "n", ".", "e", "x", "a", "m", "p", "l", "e", ".", "c", "o", "m", ":", "5", "1", "8", "2", "0">>,
      <<"[", ":", ":", "1", "]", ":", "5", "1", "8", "2", "0">>,
      <<"[", "2", "0", "0", "1", ":", "d", "b", "8", ":", ":", "1", "]", ":", "5", "1", "8", "2", "0">>,
      <<"1", ".", "2", ".", "3", ".", "4", ":", "9", "9", "9", "9", "9">> }

\* the test text with the given keys and endpoint; swapped: the two section headers
\* change places
ConfigWith(privKey, pubKey, endpoint, swapped) ==
    << IF swapped THEN S_Peer ELSE S_Interface,
       Line(K_PrivateKey, privKey),
       Line(K_Address, <<"1", "0", ".", "8", ".", "0", ".", "2", "/", "3", "2">>),
       <<"#", " ", "p", "e", "e", "r">>,
       IF swapped THEN S_Interface ELSE S_Peer,
       Line(K_PublicKey, pubKey),
       Line(K_Endpoint, endpoint),
       Line(K_AllowedIPs, FULL_TUNNEL) >>

\* the lines of conf whose index is not in drop
RECURSIVE WithoutLines(_, _)
WithoutLines(conf, drop) ==
    IF drop = {} THEN conf
    ELSE LET n == CHOOSE k \in drop : \A j \in drop : j <= k
         IN  WithoutLines(SubSeq(conf, 1, n - 1) \o SubSeq(conf, n + 1, Len(conf)),
                          drop \ {n})

\* the positions of the four required assignments in ConfigWith
RequiredLines == {2, 3, 6, 7}

\* the texts parse is studied on
ParseInputs ==
    { WithoutLines(ConfigWith(k1, k2, e, sw), drop) :
          k1 \in {TestPrivateKey, ShortKey, BadKey}, k2 \in {TestPublicKey, ShortKey},
          e \in EndpointTexts, sw \in BOOLEAN, drop \in SUBSET RequiredLines }

RemoveLine(conf, n) == SubSeq(conf, 1, n - 1) \o SubSeq(conf, n + 1, Len(conf))

\* the texts connect is called with
Configs ==
    [ full |-> ConfigText(TestPrivateKey, FULL_TUNNEL),
      split |-> ConfigText(TestPrivateKey, SplitCidrs),
      nokey |-> RemoveLine(ConfigText(TestPrivateKey, FULL_TUNNEL), 2),
      shortkey |-> ConfigText(ShortKey, FULL_TUNNEL) ]

ConfigNames == DOMAIN Configs

\* ---------------------------------------------------------------- config renderers

ClientConfigLines(client_private_key, server_public_key, endpoint_ip, listen_port) ==
    << S_Interface,
       Line(K_PrivateKey, client_private_key),
       Line(K_Address, <<"1", "0", ".", "8", ".", "0", ".", "2", "/", "3", "2">>),
       Line(K_DNS, <<"1", ".", "1", ".", "1", ".", "1">>),
       <<>>,
       S_Peer,
       Line(K_PublicKey, server_public_key),
       Line(K_Endpoint, endpoint_ip \o <<":">> \o FormatDecimal(listen_port)),
       Line(K_AllowedIPs, FULL_TUNNEL),
       Line(K_PersistentKeepalive, <<"2", "5">>) >>

\* render_client_config
render_client_config(client_private_key, server_public_key, endpoint_ip, listen_port) ==
    Unlines(ClientConfigLines(client_private_key, server_public_key, endpoint_ip,
                              listen_port))

K_ListenPort == <<"L", "i", "s", "t", "e", "n", "P", "o", "r", "t">>
K_PostUp == <<"P", "o", "s", "t", "U", "p">>
K_PostDown == <<"P", "o", "s", "t", "D", "o", "w", "n">>

\* the iptables rules of the server text, -A in PostUp and -D in PostDown
NatRule(op) ==
    <<"i", "p", "t", "a", "b", "l", "e", "s", " ", "-", "t", " ", "n", "a", "t", " ", "-">> \o op \o <<" ", "P", "O", "S", "T", "R", "O", "U", "T", "I", "N", "G", " ", "-", "o", " ", "e", "t", "h", "0", " ", "-", "j", " ", "M", "A", "S", "Q", "U", "E", "R", "A", "D", "E">>
ForwardRule(op, dir) ==
    <<"i", "p", "t", "a", "b", "l", "e", "s", " ", "-">> \o op \o <<" ", "F", "O", "R", "W", "A", "R", "D", " ", "-">> \o dir \o <<" ", "w", "g", "0", " ", "-", "j", " ", "A", "C", "C", "E", "P", "T">>

ServerConfigLines(server_private_key, client_public_key, listen_port) ==
    << S_Interface,
       Line(K_Address, <<"1", "0", ".", "8", ".", "0", ".", "1", "/", "2", "4">>),
       Line(K_ListenPort, FormatDecimal(listen_port)),
       Line(K_PrivateKey, server_private_key),
       <<>>,
       <<"#", " ", "N", "A", "T", " ", "m", "a", "s", "q", "u", "e", "r", "a", "d", "i", "n", "g", " ", "r", "u", "l", "e", "s">>,
       Line(K_PostUp, NatRule(<<"A">>)),
       Line(K_PostUp, ForwardRule(<<"A">>, <<"i">>)),
       Line(K_PostUp, ForwardRule(<<"A">>, <<"o">>)),
       Line(K_PostDown, NatRule(<<"D">>)),
       Line(K_PostDown, ForwardRule(<<"D">>, <<"i">>)),
       Line(K_PostDown, ForwardRule(<<"D">>, <<"o">>)),
       <<>>,
       S_Peer,
       Line(K_PublicKey, client_public_key),
       Line(K_AllowedIPs, <<"1", "0", ".", "8", ".", "0", ".", "2", "/", "3", "2">>) >>

\* variant of render_server_config: the two keys change places
render_server_config_SwappedKeys(server_private_key, client_public_key, listen_port) ==
    Unlines(ServerConfigLines(client_public_key, server_private_key, listen_port))

\* render_server_config
render_server_config(server_private_key, client_public_key, listen_port) ==
    Unlines(ServerConfigLines(server_private_key, client_public_key, listen_port))

\* ---------------------------------------------------------------- host routing table

TUN_NAME == <<"c", "r", "e", "a", "t", "e", "m", "y", "v", "p", "n", "0">>
DEFAULT == <<"d", "e", "f", "a", "u", "l", "t">>
HostGateway == <<"1", "9", "2", ".", "1", "6", "8", ".", "1", ".", "1">>
PROBE_IP == <<8, 8, 8, 8>>

\* a route: destination text, next hop (via) and device, each optional
ViaRoute(dst, gw) == [dst |-> dst, via |-> Some(gw), dev |-> None]
DevRoute(dst, dev) == [dst |-> dst, via |-> None, dev |-> Some(dev)]

\* 2^n
RECURSIVE Pow2(_)
Pow2(n) == IF n = 0 THEN 1 ELSE 2 * Pow2(n - 1)

\* prefix of a route destination: "default", "a.b.c.d" or "a.b.c.d/len"
DstPrefix(dst) ==
    IF dst = DEFAULT THEN [net |-> <<0, 0, 0, 0>>, len |-> 0]
    ELSE LET parts == Split(dst, "/")
         IN  [net |-> Unwrap(ParseIpv4(parts[1])),
              len |-> IF Len(parts) = 1 THEN 32 ELSE DecimalValue(parts[2])]

\* the first len bits of addresses a and b agree
SamePrefix(a, b, len) ==
    /\ \A k \in 1..(len \div 8) : a[k] = b[k]
    /\ len % 8 # 0 =>
          a[(len \div 8) + 1] \div Pow2(8 - (len % 8))
              = b[(len \div 8) + 1] \div Pow2(8 - (len % 8))

Covers(dst, ip) == SamePrefix(DstPrefix(dst).net, ip, DstPrefix(dst).len)

\* `ip route get <ip>`: the via of the longest-prefix route covering ip, if it has one
RouteGetVia(tbl, ip) ==
    LET cands == {r \in tbl : Covers(r.dst, ip)}
    IN  IF cands = {} THEN None
        ELSE (CHOOSE r \in cands :
                 \A q \in cands : DstPrefix(q.dst).len <= DstPrefix(r.dst).len).via

\* `ip route show default`: the via of a default route, if any
RouteShowDefaultVia(tbl) ==
    LET cands == {r \in tbl : r.dst = DEFAULT /\ IsSome(r.via)}
    IN  IF cands = {} THEN None ELSE (CHOOSE r \in cands : TRUE).via

\* get_default_gateway (linux); ran1, ran2: whether each `ip` command could be run
get_default_gateway(tbl, ran1, ran2) ==
    IF ran1 /\ IsSome(RouteShowDefaultVia(tbl)) THEN RouteShowDefaultVia(tbl)
    ELSE IF ran2 /\ IsSome(RouteGetVia(tbl, PROBE_IP)) THEN RouteGetVia(tbl, PROBE_IP)
    ELSE None

\* outcome of running a routing command: exit 0, non-zero exit, or failure to spawn
CmdOutcomes == {"ok", "fail", "spawn_err"}

\* effect of `ip route add` on the table
RouteAdd(tbl, r, out) == IF out = "ok" THEN tbl \cup {r} ELSE tbl

\* effect of `ip route del` on the table
RouteDel(tbl, r, out) == IF out = "ok" THEN tbl \ {r} ELSE tbl

\* setup_routes: full_tunnel
IsFullTunnel(allowed_ips) == Contains(allowed_ips, FULL_TUNNEL)

\* variant of PlannedTunnelRoutes: 0.0.0.0/0 is routed as it stands, not split
PlannedTunnelRoutes_NoSplit(allowed_ips) == allowed_ips

\* setup_routes step 2: the CIDRs handed to run_ip_route_add, in order
RECURSIVE PlannedTunnelRoutes(_)
PlannedTunnelRoutes(allowed_ips) ==
    IF allowed_ips = <<>> THEN <<>>
    ELSE (IF Head(allowed_ips) = FULL_TUNNEL THEN <<HALF_LOW, HALF_HIGH>>
          ELSE <<Head(allowed_ips)>>) \o PlannedTunnelRoutes(Tail(allowed_ips))

\* remove_routes: the routes it deletes, in order
RemovePlan(server_ip, gateway) ==
    <<DevRoute(HALF_LOW, TUN_NAME), DevRoute(HALF_HIGH, TUN_NAME)>>
        \o (IF IsSome(gateway) THEN <<ViaRoute(server_ip, Unwrap(gateway))>> ELSE <<>>)

\* OS error text of a failed tun2::create, by the substring of it connect looks for;
\* "other": a text with none of them
TunOutcomes ==
    {"ok", "Operation not permitted", "Access is denied", "No such file", "os error 2",
     "not signed", "not trusted", "Signer", "other"}

\* variant of TunCreateError: every failure gets the generic text
TunCreateError_Generic(msg) == "Failed to create TUN device"

\* the map_err of tun2::create
TunCreateError(msg) ==
    IF msg = "Operation not permitted" \/ msg = "Access is denied"
    THEN "Cannot create TUN device - permission denied"
    ELSE IF msg = "No such file" \/ msg = "os error 2"
    THEN "Cannot create TUN device - /dev/net/tun not found"
    ELSE IF msg = "not signed" \/ msg = "not trusted" \/ msg = "Signer"
    THEN "Cannot create TUN device - the wintun.dll present is not accepted"
    ELSE "Failed to create TUN device"

NO_GATEWAY_ERROR == "Cannot set up full-tunnel VPN routing: the system's default gateway could not be detected"

\* ---------------------------------------------------------------- routing, per platform

\* a host destination written as a CIDR: "a.b.c.d" and "a.b.c.d/32" name the same route
HostCidr(ip) == ip \o <<"/", "3", "2">>

\* the prefix length of the two masks the Windows branch uses
WinMaskLen(mask) ==
    IF mask = <<"2", "5", "5", ".", "2", "5", "5", ".", "2", "5", "5", ".", "2", "5", "5">>
    THEN <<"3", "2">>
    ELSE <<"1">>

\* `route add <net> mask <mask> ..` as a CIDR destination
WinCidr(net, mask) == net \o <<"/">> \o WinMaskLen(mask)

WIN_HOST_MASK == <<"2", "5", "5", ".", "2", "5", "5", ".", "2", "5", "5", ".", "2", "5", "5">>
WIN_HALF_MASK == <<"1", "2", "8", ".", "0", ".", "0", ".", "0">>
WIN_HALVES == << <<"0", ".", "0", ".", "0", ".", "0">>, <<"1", "2", "8", ".", "0", ".", "0", ".", "0">> >>

DevRoutes(cidrs) == [k \in 1..Len(cidrs) |-> DevRoute(cidrs[k], TUN_NAME)]

\* what a run of setup_routes did: the route additions it issued, in order, and
\* whether it returned Ok
SetupResult(adds, ok) == [adds |-> adds, ok |-> ok]

\* setup_routes, linux branch; ran: whether the routing utility can be run
setup_routes_linux(server_ip, gateway, allowed_ips, ran) ==
    LET plan == PlannedTunnelRoutes(allowed_ips)
    IN  IF IsSome(gateway)
        THEN IF ran
             THEN SetupResult(<<ViaRoute(HostCidr(server_ip), Unwrap(gateway))>>
                                  \o DevRoutes(plan), TRUE)
             ELSE SetupResult(<<>>, FALSE)
        ELSE IF IsFullTunnel(allowed_ips) THEN SetupResult(<<>>, FALSE)
        ELSE IF plan = <<>> THEN SetupResult(<<>>, TRUE)
        ELSE IF ran THEN SetupResult(DevRoutes(plan), TRUE)
        ELSE SetupResult(<<>>, FALSE)

\* macos branch, step 2: only 0.0.0.0/0 entries get routes
RECURSIVE MacTunnelRoutes(_)
MacTunnelRoutes(allowed_ips) ==
    IF allowed_ips = <<>> THEN <<>>
    ELSE (IF Head(allowed_ips) = FULL_TUNNEL THEN <<HALF_LOW, HALF_HIGH>> ELSE <<>>)
             \o MacTunnelRoutes(Tail(allowed_ips))

\* setup_routes, macos branch: every outcome is discarded
setup_routes_macos(server_ip, gateway, allowed_ips, ran) ==
    IF ran
    THEN SetupResult((IF IsSome(gateway)
                      THEN <<ViaRoute(HostCidr(server_ip), Unwrap(gateway))>>
                      ELSE <<>>) \o DevRoutes(MacTunnelRoutes(allowed_ips)), TRUE)
    ELSE SetupResult(<<>>, TRUE)

\* setup_routes, windows branch; if_index: what get_tun_if_index returned
setup_routes_windows(server_ip, gateway, allowed_ips, ran, if_index) ==
    IF ~IsSome(gateway) /\ IsFullTunnel(allowed_ips) THEN SetupResult(<<>>, FALSE)
    ELSE SetupResult(
            (IF IsSome(gateway) /\ ran
             THEN <<ViaRoute(WinCidr(server_ip, WIN_HOST_MASK), Unwrap(gateway))>>
             ELSE <<>>)
            \o (IF IsFullTunnel(allowed_ips) /\ IsSome(if_index) /\ ran
                THEN DevRoutes([k \in 1..2 |-> WinCidr(WIN_HALVES[k], WIN_HALF_MASK)])
                ELSE <<>>),
            TRUE)

\* remove_routes per platform: the destinations it deletes, in order
remove_routes_linux(server_ip, gateway) ==
    <<HALF_LOW, HALF_HIGH>> \o (IF IsSome(gateway) THEN <<HostCidr(server_ip)>> ELSE <<>>)

remove_routes_macos(server_ip, gateway) ==
    <<HALF_LOW, HALF_HIGH>> \o (IF IsSome(gateway) THEN <<HostCidr(server_ip)>> ELSE <<>>)

remove_routes_windows(server_ip, gateway) ==
    <<WinCidr(WIN_HALVES[1], WIN_HALF_MASK), WinCidr(WIN_HALVES[2], WIN_HALF_MASK),
      WinCidr(server_ip, WIN_HOST_MASK)>>

Platforms == {"linux", "macos", "windows"}

\* setup_routes as built for platform p, on argument record a
setup_routes_on(p, a) ==
    IF p = "linux" THEN setup_routes_linux(a.server_ip, a.gateway, a.allowed_ips, a.ran)
    ELSE IF p = "macos"
    THEN setup_routes_macos(a.server_ip, a.gateway, a.allowed_ips, a.ran)
    ELSE setup_routes_windows(a.server_ip, a.gateway, a.allowed_ips, a.ran, a.if_index)

\* remove_routes as built for platform p, on argument record a
remove_routes_on(p, a) ==
    IF p = "linux" THEN remove_routes_linux(a.server_ip, a.gateway)
    ELSE IF p = "macos" THEN remove_routes_macos(a.server_ip, a.gateway)
    ELSE remove_routes_windows(a.server_ip, a.gateway)

\* ---------------------------------------------------------------- supervisor state

MaxTunnels == 2
Ids == 1..MaxTunnels

SeqCallers == {1}
ConcCallers == {1, 2}

VARIABLES
    table,      \* the host routing table
    TUNNEL,     \* the TUNNEL cell: None or Some(ActiveTunnel)
    lock,       \* holder of the TUNNEL mutex, 0 when free
    pc,         \* position of each caller thread
    loc,        \* locals of each caller thread's current call
    ret,        \* what a call returned to its caller thread in the step just taken
    tuns,       \* tunnels whose TUN device exists
    pump,       \* state of each tunnel's pump thread
    chan,       \* state of each tunnel's stop channel
    snap,       \* history: the table a caller's last connect, if it succeeded, began with
    last,       \* history: outcome of the last completed connect or disconnect call
                \* ("disconnect_idle": a disconnect that found no tunnel;
                \* "connect_err_active": a failed connect that found one)
    observe,    \* whether this run records snap, last and loc[t].before
    routed,     \* history: per tunnel, the routes its connect ran an addition for and
                \* whether one of them was deleted since; <<>> in a run that keeps none
    io,         \* each pump thread's place in its loop and the events ready for it
    input,      \* the argument a function under study is called with
    output,     \* what that function returned, None before the call
    cloud,      \* the resources that exist at the cloud provider
    saved,      \* the DeploymentState file: the resource fields it holds, None if absent
    dep,        \* the running deploy or destroy command: its place and its state value
    app         \* the app process: whether it runs, the clock, its auto-destroy timers

vars == <<table, TUNNEL, lock, pc, loc, ret, tuns, pump, chan, snap, last, observe,
          io, input, output, cloud, saved, dep, app, routed>>

\* no deploy or destroy command running; hours is the auto_destroy_hours argument of
\* the last deploy, gen is history: which deploy call it was; by and timer are
\* history: who called the last destroy_vpn_internal ("command" or "timer") and, for a
\* timer, the deploy call it was scheduled for
IdleDep ==
    [cmd |-> "none", mode |-> "none", at |-> 0, state |-> {}, result |-> "none",
     hours |-> <<>>, gen |-> 0, by |-> "none", timer |-> 0]

\* the app runs, the clock is at 0 and no timer sleeps; deploys is history: the number
\* of deploy calls so far, -1 in a run that does not count them
QuietApp == [up |-> TRUE, now |-> 0, timers |-> {}, deploys |-> -1]

\* a timer spawned for the deadline at; gen is history: the deploy call whose
\* deployment it was scheduled for
Timer(at, gen) == [at |-> at, gen |-> gen]

MaxDeploys == 2
MaxNow == 2

\* nothing deployed, no deploy command running
NoDeploy ==
    /\ cloud = {}
    /\ saved = None
    /\ dep = IdleDep

\* a history value: x where history is recorded, else the default d
Obs(x, d) == IF observe THEN x ELSE d

\* locals of a call; adds, dels, prior and before are history kept for the call's
\* duration: the routes a route-add / route-del command was run for, the tunnel a
\* connect found active, and the table when connect began its own work
IdleLoc ==
    [cfg |-> "", id |-> 0, inConnect |-> FALSE, active |-> None, delTodo |-> <<>>,
     endpoint |-> <<>>, allowed_ips |-> <<>>, gateway |-> None, server_ip |-> <<>>,
     addTodo |-> <<>>, adds |-> <<>>, dels |-> <<>>, prior |-> None, before |-> {}]

\* what a call returned; os: history, the OS error text a TUN creation failed with
NoRet == [fn |-> "none", ok |-> TRUE, err |-> "", val |-> FALSE, os |-> ""]
NoRets == [t \in ConcCallers |-> NoRet]
RetOk(fn) == [fn |-> fn, ok |-> TRUE, err |-> "", val |-> FALSE, os |-> ""]
RetErr(fn, msg) == [fn |-> fn, ok |-> FALSE, err |-> msg, val |-> FALSE, os |-> ""]
RetBool(fn, b) == [fn |-> fn, ok |-> TRUE, err |-> "", val |-> b, os |-> ""]

\* tunnel identities that cell value T or the locals L refer to
Refs(T, L) ==
    {i \in Ids :
        \/ IsSome(T) /\ Unwrap(T).id = i
        \/ \E t \in ConcCallers :
              \/ L[t].id = i
              \/ IsSome(L[t].active) /\ Unwrap(L[t].active).id = i
              \/ IsSome(L[t].prior) /\ Unwrap(L[t].prior).id = i}

NoChan == [tx |-> "none", rx |-> "none"]

\* a pump thread that has exited and that nothing in R refers to leaves no state
ReapPump(p, R) == [i \in Ids |-> IF p[i] = "exited" /\ i \notin R THEN "none" ELSE p[i]]
ReapChan(c, p, R) == [i \in Ids |-> IF p[i] = "exited" /\ i \notin R THEN NoChan ELSE c[i]]

\* tunnel identities not in use
FreeIds == {i \in Ids : pump[i] = "none" /\ i \notin tuns /\ i \notin Refs(TUNNEL, loc)}

\* the route history of a tunnel whose connect has run no route command
NoRoutes == [adds |-> {}, cut |-> FALSE]

\* the history when a connect call takes tunnel identity i, and when tunnel i leaves
\* the cell or its connect fails: nothing is kept of a tunnel that cannot be active
RoutedFresh(i) == IF routed = <<>> THEN routed ELSE [routed EXCEPT ![i] = NoRoutes]

\* the history after the connect of tunnel i ran an addition for route r
RoutedAdd(i, r) == IF routed = <<>> THEN routed ELSE [routed EXCEPT ![i].adds = @ \cup {r}]

\* the history after a deletion of route r from table tbl with outcome out
RoutedDel(tbl, r, out) ==
    IF routed = <<>> THEN routed
    ELSE [i \in Ids |-> IF out = "ok" /\ r \in tbl /\ r \in routed[i].adds
                        THEN [routed[i] EXCEPT !.cut = TRUE]
                        ELSE routed[i]]

\* a pump loop at its select! with no event ready; at: "select", or the arm being run
\* ("timer", "tun", "udp", and "flush" for the decapsulate loop); timer: a tick is due;
\* tun, udp: what a read / recv would return now ("none": it would not return);
\* did: history, the outcome of the last arm run
IdleIo ==
    [at |-> "select", timer |-> FALSE, tun |-> "none", udp |-> "none", did |-> "none",
     data_slice |-> "none", pkt |-> 0, dgram |-> 0, udp_buf |-> 0]

\* routing tables a host may have before the program runs: empty, with a default
\* route, or with a default route and an endpoint pin left by an earlier process
HostTables ==
    {{}, {ViaRoute(DEFAULT, HostGateway)},
     {ViaRoute(DEFAULT, HostGateway),
      ViaRoute(<<"1", ".", "2", ".", "3", ".", "4">>, HostGateway)}}

Init ==
    /\ table \in HostTables
    /\ TUNNEL = None
    /\ lock = 0
    /\ pc = [t \in ConcCallers |-> "idle"]
    /\ loc = [t \in ConcCallers |-> IdleLoc]
    /\ ret = NoRets
    /\ tuns = {}
    /\ pump = [i \in Ids |-> "none"]
    /\ chan = [i \in Ids |-> NoChan]
    /\ snap = [t \in ConcCallers |-> None]
    /\ last = "none"
    /\ observe = TRUE
    /\ io = [i \in Ids |-> IdleIo]
    /\ input = <<>>
    /\ output = None
    /\ NoDeploy
    /\ app = QuietApp
    /\ routed = <<>>

\* ---------------------------------------------------------------- disconnect

\* pub fn disconnect(), entered from a caller
CallDisconnect(t) ==
    /\ pc[t] = "idle"
    /\ pc' = [pc EXCEPT ![t] = "d_take"]
    /\ loc' = [loc EXCEPT ![t] = IdleLoc]
    /\ ret' = NoRets
    /\ UNCHANGED <<table, TUNNEL, lock, tuns, pump, chan, snap, last>>
    /\ UNCHANGED <<observe, io, input, output, cloud, saved, dep, app, routed>>

\* disconnect returns Ok(()): to connect's next statement, or to the caller
DisconnectFinish(t) ==
    IF loc[t].inConnect
    THEN /\ pc' = [pc EXCEPT ![t] = "c_parse"]
         /\ loc' = [loc EXCEPT ![t].active = None, ![t].delTodo = <<>>,
                               ![t].before = Obs(table, {})]
         /\ UNCHANGED <<snap, last, pump, chan>>
         /\ ret' = NoRets
    ELSE /\ pc' = [pc EXCEPT ![t] = "idle"]
         /\ loc' = [loc EXCEPT ![t] = IdleLoc]
         /\ ret' = [NoRets EXCEPT ![t] = RetOk("disconnect")]
         /\ last' = Obs(IF IsSome(loc[t].active) THEN "disconnect" ELSE "disconnect_idle",
                        "none")
         /\ pump' = ReapPump(pump, Refs(TUNNEL, loc'))
         /\ chan' = ReapChan(chan, pump, Refs(TUNNEL, loc'))
         /\ UNCHANGED snap

\* variant of DisconnectTake: remove_routes runs even when the cell is empty
DisconnectTake_RemoveAnyway(t) ==
    /\ pc[t] = "d_take"
    /\ lock = 0
    /\ lock' = t
    /\ routed' = IF IsSome(TUNNEL) THEN RoutedFresh(Unwrap(TUNNEL).id) ELSE routed
    /\ TUNNEL' = None
    /\ loc' = [loc EXCEPT ![t].active = TUNNEL,
                          ![t].prior = IF loc[t].inConnect THEN TUNNEL ELSE None,
                          ![t].delTodo = IF IsSome(TUNNEL) THEN <<>>
                                         ELSE RemovePlan(<<>>, None)]
    /\ pc' = [pc EXCEPT ![t] = IF IsSome(TUNNEL) THEN "d_stop" ELSE "d_routes"]
    /\ ret' = NoRets
    /\ UNCHANGED <<table, tuns, pump, chan, snap, last>>
    /\ UNCHANGED <<observe, io, input, output, cloud, saved, dep, app>>

\* let mut guard = tunnel_lock().lock().unwrap(); if let Some(active) = guard.take()
DisconnectTake(t) ==
    /\ pc[t] = "d_take"
    /\ lock = 0
    /\ IF IsSome(TUNNEL)
       THEN /\ lock' = t
            /\ routed' = RoutedFresh(Unwrap(TUNNEL).id)
            /\ TUNNEL' = None
            /\ loc' = [loc EXCEPT ![t].active = TUNNEL,
                                  ![t].prior = IF loc[t].inConnect THEN TUNNEL ELSE None]
            /\ pc' = [pc EXCEPT ![t] = "d_stop"]
            /\ UNCHANGED <<snap, last, pump, chan>>
            /\ ret' = NoRets
       ELSE /\ DisconnectFinish(t)
            /\ UNCHANGED <<lock, TUNNEL, routed>>
    /\ UNCHANGED <<table, tuns>>
    /\ UNCHANGED <<observe, io, input, output, cloud, saved, dep, app>>

\* variant of DisconnectStop: the stop signal is not sent
DisconnectStop_NoSend(t) ==
    /\ pc[t] = "d_stop"
    /\ LET a == Unwrap(loc[t].active)
       IN  loc' = [loc EXCEPT ![t].delTodo = RemovePlan(a.server_ip, a.gateway)]
    /\ pc' = [pc EXCEPT ![t] = "d_routes"]
    /\ UNCHANGED <<table, TUNNEL, lock, tuns, pump, chan, snap, last>>
    /\ ret' = NoRets
    /\ UNCHANGED <<observe, io, input, output, cloud, saved, dep, app, routed>>

\* let _ = active.stop_tx.send(()); then entry of remove_routes
DisconnectStop(t) ==
    /\ pc[t] = "d_stop"
    /\ LET a == Unwrap(loc[t].active)
       IN  /\ chan' = [chan EXCEPT ![a.id].tx =
                          IF chan[a.id].rx = "alive" THEN "sent" ELSE "closed"]
           /\ loc' = [loc EXCEPT ![t].delTodo = RemovePlan(a.server_ip, a.gateway)]
    /\ pc' = [pc EXCEPT ![t] = "d_routes"]
    /\ UNCHANGED <<table, TUNNEL, lock, tuns, pump, snap, last>>
    /\ ret' = NoRets
    /\ UNCHANGED <<observe, io, input, output, cloud, saved, dep, app, routed>>

\* variant of RemoveRouteStep: a route deletion that cannot be run ends the call with Err
RemoveRouteStep_Propagate(t) ==
    /\ pc[t] = "d_routes"
    /\ loc[t].delTodo # <<>>
    /\ \E out \in CmdOutcomes :
          IF out = "spawn_err"
          THEN /\ pc' = [pc EXCEPT ![t] = "idle"]
               /\ loc' = [loc EXCEPT ![t] = IdleLoc]
               /\ ret' = [NoRets EXCEPT ![t] = RetErr("disconnect", "ip route del")]
               /\ lock' = 0
               /\ last' = Obs("disconnect", "none")
               /\ pump' = ReapPump(pump, Refs(TUNNEL, loc'))
               /\ chan' = ReapChan(chan, pump, Refs(TUNNEL, loc'))
               /\ UNCHANGED <<table, routed>>
          ELSE /\ table' = RouteDel(table, Head(loc[t].delTodo), out)
               /\ routed' = RoutedDel(table, Head(loc[t].delTodo), out)
               /\ loc' = [loc EXCEPT ![t].delTodo = Tail(@),
                                     ![t].dels = Append(@, Head(loc[t].delTodo))]
               /\ ret' = NoRets
               /\ UNCHANGED <<lock, pc, pump, chan, last>>
    /\ UNCHANGED <<TUNNEL, tuns, snap>>
    /\ UNCHANGED <<observe, io, input, output, cloud, saved, dep, app>>

\* remove_routes: one `let _ = Command::new("ip").args(["route", "del", ..]).output()`
RemoveRouteStep(t) ==
    /\ pc[t] = "d_routes"
    /\ loc[t].delTodo # <<>>
    /\ \E out \in CmdOutcomes :
          /\ table' = RouteDel(table, Head(loc[t].delTodo), out)
          /\ routed' = RoutedDel(table, Head(loc[t].delTodo), out)
    /\ loc' = [loc EXCEPT ![t].delTodo = Tail(@),
                          ![t].dels = Append(@, Head(loc[t].delTodo))]
    /\ UNCHANGED <<TUNNEL, lock, pc, tuns, pump, chan, snap, last>>
    /\ ret' = NoRets
    /\ UNCHANGED <<observe, io, input, output, cloud, saved, dep, app>>

\* end of disconnect: the guard is dropped, Ok(()) returned
DisconnectReturn(t) ==
    /\ pc[t] = "d_routes"
    /\ loc[t].delTodo = <<>>
    /\ lock' = 0
    /\ DisconnectFinish(t)
    /\ UNCHANGED <<table, TUNNEL, tuns>>
    /\ UNCHANGED <<observe, io, input, output, cloud, saved, dep, app, routed>>

\* ---------------------------------------------------------------- is_active

\* tunnel_lock().lock().unwrap().is_some()
IsActive(t) ==
    /\ pc[t] = "idle"
    /\ lock = 0
    /\ ret' = [NoRets EXCEPT ![t] = RetBool("is_active", IsSome(TUNNEL))]
    /\ UNCHANGED <<table, TUNNEL, lock, pc, loc, tuns, pump, chan, snap, last>>
    /\ UNCHANGED <<observe, io, input, output, cloud, saved, dep, app, routed>>

\* ---------------------------------------------------------------- connect

\* variant of CallConnect: connect does not disconnect first
CallConnect_NoDisconnect(t, c) ==
    /\ pc[t] = "idle"
    /\ FreeIds # {}
    /\ LET i == CHOOSE i \in FreeIds : \A j \in FreeIds : i <= j
       IN  loc' = [loc EXCEPT ![t] = [IdleLoc EXCEPT !.cfg = c, !.id = i,
                                                     !.inConnect = TRUE,
                                                     !.before = Obs(table, {})]]
    /\ pc' = [pc EXCEPT ![t] = "c_parse"]
    /\ ret' = NoRets
    /\ routed' = RoutedFresh(CHOOSE i \in FreeIds : \A j \in FreeIds : i <= j)
    /\ snap' = [snap EXCEPT ![t] = None]
    /\ UNCHANGED <<table, TUNNEL, lock, tuns, pump, chan, last>>
    /\ UNCHANGED <<observe, io, input, output, cloud, saved, dep, app>>

\* pub fn connect(config_str), entered from a caller: let _ = disconnect();
CallConnect(t, c) ==
    /\ pc[t] = "idle"
    /\ FreeIds # {}
    /\ LET i == CHOOSE i \in FreeIds : \A j \in FreeIds : i <= j
       IN  /\ loc' = [loc EXCEPT ![t] = [IdleLoc EXCEPT !.cfg = c, !.id = i,
                                                        !.inConnect = TRUE]]
    /\ pc' = [pc EXCEPT ![t] = "d_take"]
    /\ ret' = NoRets
    /\ routed' = RoutedFresh(CHOOSE i \in FreeIds : \A j \in FreeIds : i <= j)
    /\ snap' = [snap EXCEPT ![t] = None]
    /\ UNCHANGED <<table, TUNNEL, lock, tuns, pump, chan, last>>
    /\ UNCHANGED <<observe, io, input, output, cloud, saved, dep, app>>

\* what ParsedClientConfig::parse(config_str) returns for each input text
ParsedConfigs == [c \in ConfigNames |-> parse(Configs[c])]

\* what the two decode_key calls return for each input text that parses
DecodedKeys ==
    [c \in {n \in ConfigNames : ParsedConfigs[n].ok} |->
        [private |-> decode_key(ParsedConfigs[c].val.private_key_b64),
         public |-> decode_key(ParsedConfigs[c].val.server_public_key_b64)]]

\* connect returns Err(msg) by `?`: its locals, the TUN device among them, are dropped
ConnectFailOn(t, msg, os) ==
    /\ pc' = [pc EXCEPT ![t] = "idle"]
    /\ loc' = [loc EXCEPT ![t] = IdleLoc]
    /\ ret' = [NoRets EXCEPT ![t] = [RetErr("connect", msg) EXCEPT !.os = os]]
    /\ tuns' = tuns \ {loc[t].id}
    /\ pump' = ReapPump(pump, Refs(TUNNEL, loc'))
    /\ chan' = ReapChan(chan, pump, Refs(TUNNEL, loc'))
    /\ last' = Obs(IF IsSome(loc[t].prior) THEN "connect_err_active" ELSE "connect_err",
                   "none")

ConnectFail(t, msg) == ConnectFailOn(t, msg, "")

\* let cfg = ParsedClientConfig::parse(config_str)?;
ConnectParse(t) ==
    /\ pc[t] = "c_parse"
    /\ LET r == ParsedConfigs[loc[t].cfg]
       IN  IF r.ok
           THEN /\ pc' = [pc EXCEPT ![t] = "c_keys"]
                /\ loc' = [loc EXCEPT ![t].endpoint = r.val.endpoint.ip,
                                      ![t].allowed_ips = r.val.allowed_ips]
                /\ UNCHANGED <<tuns, pump, chan, last>>
                /\ ret' = NoRets
           ELSE ConnectFail(t, r.err)
    /\ UNCHANGED <<table, TUNNEL, lock, snap>>
    /\ UNCHANGED <<observe, io, input, output, cloud, saved, dep, app, routed>>

\* variant of ConnectDecodeKeys: the TUN device is created next, the gateway not captured
ConnectDecodeKeys_ThenTun(t) ==
    /\ pc[t] = "c_keys"
    /\ LET private_bytes == DecodedKeys[loc[t].cfg].private
           public_bytes == DecodedKeys[loc[t].cfg].public
       IN  IF ~private_bytes.ok THEN ConnectFail(t, private_bytes.err)
           ELSE IF ~public_bytes.ok THEN ConnectFail(t, public_bytes.err)
           ELSE /\ pc' = [pc EXCEPT ![t] = "c_tun"]
                /\ UNCHANGED <<loc, tuns, pump, chan, last>>
                /\ ret' = NoRets
    /\ UNCHANGED <<table, TUNNEL, lock, snap>>
    /\ UNCHANGED <<observe, io, input, output, cloud, saved, dep, app, routed>>

\* decode_key(&cfg.private_key_b64)?; decode_key(&cfg.server_public_key_b64)?;
ConnectDecodeKeys(t) ==
    /\ pc[t] = "c_keys"
    /\ LET private_bytes == DecodedKeys[loc[t].cfg].private
           public_bytes == DecodedKeys[loc[t].cfg].public
       IN  IF ~private_bytes.ok THEN ConnectFail(t, private_bytes.err)
           ELSE IF ~public_bytes.ok THEN ConnectFail(t, public_bytes.err)
           ELSE /\ pc' = [pc EXCEPT ![t] = "c_gateway"]
                /\ UNCHANGED <<loc, tuns, pump, chan, last>>
                /\ ret' = NoRets
    /\ UNCHANGED <<table, TUNNEL, lock, snap>>
    /\ UNCHANGED <<observe, io, input, output, cloud, saved, dep, app, routed>>

\* let gateway = get_default_gateway();
ConnectGetGateway(t) ==
    /\ pc[t] = "c_gateway"
    /\ \E ran1, ran2 \in BOOLEAN :
          loc' = [loc EXCEPT ![t].gateway = get_default_gateway(table, ran1, ran2)]
    /\ pc' = [pc EXCEPT ![t] = "c_tun"]
    /\ UNCHANGED <<table, TUNNEL, lock, tuns, pump, chan, snap, last>>
    /\ ret' = NoRets
    /\ UNCHANGED <<observe, io, input, output, cloud, saved, dep, app, routed>>

\* let tun = tun2::create(&tun_config).map_err(..)?; server_ip = endpoint.ip().to_string()
ConnectCreateTun(t) ==
    /\ pc[t] = "c_tun"
    /\ \E out \in TunOutcomes :
          IF out = "ok"
          THEN /\ tuns' = tuns \cup {loc[t].id}
               /\ pc' = [pc EXCEPT ![t] = "c_pin"]
               /\ loc' = [loc EXCEPT ![t].server_ip = IpToString(loc[t].endpoint)]
               /\ UNCHANGED <<pump, chan, last>>
               /\ ret' = NoRets
          ELSE ConnectFailOn(t, TunCreateError(out), out)
    /\ UNCHANGED <<table, TUNNEL, lock, snap>>
    /\ UNCHANGED <<observe, io, input, output, cloud, saved, dep, app, routed>>

\* setup_routes step 1: pin the server to the real gateway, or refuse full tunnel
SetupRoutesPin(t) ==
    /\ pc[t] = "c_pin"
    /\ IF IsSome(loc[t].gateway)
       THEN \E out \in CmdOutcomes :
               IF out = "spawn_err"
               THEN /\ ConnectFail(t, "ip route add (server)")
                    /\ routed' = RoutedFresh(loc[t].id)
                    /\ UNCHANGED table
               ELSE /\ table' = RouteAdd(table,
                                   ViaRoute(loc[t].server_ip, Unwrap(loc[t].gateway)), out)
                    /\ routed' = RoutedAdd(loc[t].id,
                                   ViaRoute(loc[t].server_ip, Unwrap(loc[t].gateway)))
                    /\ pc' = [pc EXCEPT ![t] = "c_routes"]
                    /\ loc' = [loc EXCEPT
                          ![t].addTodo = PlannedTunnelRoutes(loc[t].allowed_ips),
                          ![t].adds = Append(@, ViaRoute(loc[t].server_ip,
                                                         Unwrap(loc[t].gateway)))]
                    /\ UNCHANGED <<tuns, pump, chan, last>>
                    /\ ret' = NoRets
       ELSE IF IsFullTunnel(loc[t].allowed_ips)
       THEN /\ ConnectFail(t, NO_GATEWAY_ERROR)
            /\ routed' = RoutedFresh(loc[t].id)
            /\ UNCHANGED table
       ELSE /\ pc' = [pc EXCEPT ![t] = "c_routes"]
            /\ loc' = [loc EXCEPT ![t].addTodo = PlannedTunnelRoutes(loc[t].allowed_ips)]
            /\ UNCHANGED <<table, tuns, pump, chan, last, routed>>
            /\ ret' = NoRets
    /\ UNCHANGED <<TUNNEL, lock, snap>>
    /\ UNCHANGED <<observe, io, input, output, cloud, saved, dep, app>>

\* setup_routes step 2: run_ip_route_add(cidr)? for the next planned CIDR
RunIpRouteAdd(t) ==
    /\ pc[t] = "c_routes"
    /\ loc[t].addTodo # <<>>
    /\ \E out \in CmdOutcomes :
          IF out = "spawn_err"
          THEN /\ ConnectFail(t, "ip route add")
               /\ routed' = RoutedFresh(loc[t].id)
               /\ UNCHANGED table
          ELSE /\ table' = RouteAdd(table, DevRoute(Head(loc[t].addTodo), TUN_NAME), out)
               /\ routed' = RoutedAdd(loc[t].id, DevRoute(Head(loc[t].addTodo), TUN_NAME))
               /\ loc' = [loc EXCEPT
                     ![t].addTodo = Tail(@),
                     ![t].adds = Append(@, DevRoute(Head(loc[t].addTodo), TUN_NAME))]
               /\ UNCHANGED <<pc, tuns, pump, chan, last>>
               /\ ret' = NoRets
    /\ UNCHANGED <<TUNNEL, lock, snap>>
    /\ UNCHANGED <<observe, io, input, output, cloud, saved, dep, app>>

\* oneshot::channel(); std::thread::spawn(.. tunnel_loop(tun, tunn, endpoint, stop_rx))
ConnectSpawn(t) ==
    /\ pc[t] = "c_routes"
    /\ loc[t].addTodo = <<>>
    /\ chan' = [chan EXCEPT ![loc[t].id] = [tx |-> "held", rx |-> "alive"]]
    /\ pump' = [pump EXCEPT ![loc[t].id] = "starting"]
    /\ pc' = [pc EXCEPT ![t] = "c_store"]
    /\ UNCHANGED <<table, TUNNEL, lock, loc, tuns, snap, last>>
    /\ ret' = NoRets
    /\ UNCHANGED <<observe, io, input, output, cloud, saved, dep, app, routed>>

\* variant of ConnectStore: the record is stored without taking the mutex
ConnectStore_NoLock(t) ==
    /\ pc[t] = "c_store"
    /\ TUNNEL' = Some([id |-> loc[t].id, server_ip |-> loc[t].server_ip,
                       gateway |-> loc[t].gateway])
    /\ routed' = IF IsSome(TUNNEL) THEN RoutedFresh(Unwrap(TUNNEL).id) ELSE routed
    /\ pc' = [pc EXCEPT ![t] = "idle"]
    /\ loc' = [loc EXCEPT ![t] = IdleLoc]
    /\ LET dropped == IF IsSome(TUNNEL)
                       THEN [chan EXCEPT ![Unwrap(TUNNEL).id].tx = "dropped"]
                       ELSE chan
       IN  /\ pump' = ReapPump(pump, Refs(TUNNEL', loc'))
           /\ chan' = ReapChan(dropped, pump, Refs(TUNNEL', loc'))
    /\ ret' = [NoRets EXCEPT ![t] = RetOk("connect")]
    /\ last' = Obs("connect_ok", "none")
    /\ snap' = [snap EXCEPT ![t] = Obs(Some(loc[t].before), None)]
    /\ UNCHANGED <<table, lock, tuns>>
    /\ UNCHANGED <<observe, io, input, output, cloud, saved, dep, app>>

\* *tunnel_lock().lock().unwrap() = Some(ActiveTunnel {..}); Ok(())
\* a record the cell still held is dropped, and its stop_tx with it
ConnectStore(t) ==
    /\ pc[t] = "c_store"
    /\ lock = 0
    /\ TUNNEL' = Some([id |-> loc[t].id, server_ip |-> loc[t].server_ip,
                       gateway |-> loc[t].gateway])
    /\ routed' = IF IsSome(TUNNEL) THEN RoutedFresh(Unwrap(TUNNEL).id) ELSE routed
    /\ pc' = [pc EXCEPT ![t] = "idle"]
    /\ loc' = [loc EXCEPT ![t] = IdleLoc]
    /\ LET dropped == IF IsSome(TUNNEL)
                       THEN [chan EXCEPT ![Unwrap(TUNNEL).id].tx = "dropped"]
                       ELSE chan
       IN  /\ pump' = ReapPump(pump, Refs(TUNNEL', loc'))
           /\ chan' = ReapChan(dropped, pump, Refs(TUNNEL', loc'))
    /\ ret' = [NoRets EXCEPT ![t] = RetOk("connect")]
    /\ last' = Obs("connect_ok", "none")
    /\ snap' = [snap EXCEPT ![t] = Obs(Some(loc[t].before), None)]
    /\ UNCHANGED <<table, lock, tuns>>
    /\ UNCHANGED <<observe, io, input, output, cloud, saved, dep, app>>

\* ---------------------------------------------------------------- pump thread

\* tunnel_loop returns: the TUN halves and stop_rx it owns are dropped
PumpExit(i) ==
    /\ tuns' = tuns \ {i}
    /\ IF i \in Refs(TUNNEL, loc)
       THEN /\ pump' = [pump EXCEPT ![i] = "exited"]
            /\ chan' = [chan EXCEPT ![i].rx = "dropped"]
       ELSE /\ pump' = [pump EXCEPT ![i] = "none"]
            /\ chan' = [chan EXCEPT ![i] = NoChan]

\* tunnel_loop before `loop`: AsyncDevice::new, split, UdpSocket::bind, connect
PumpInit(i) ==
    /\ pump[i] = "starting"
    /\ \E ok \in BOOLEAN :
          IF ok
          THEN /\ pump' = [pump EXCEPT ![i] = "looping"]
               /\ UNCHANGED <<tuns, chan>>
          ELSE PumpExit(i)
    /\ UNCHANGED <<table, TUNNEL, lock, pc, loc, snap, last>>
    /\ ret' = NoRets
    /\ UNCHANGED <<observe, io, input, output, cloud, saved, dep, app, routed>>

\* variant of PumpStop: only a dropped sender ends the loop, a sent signal does not
PumpStop_OnlyOnDrop(i) ==
    /\ pump[i] = "looping"
    /\ io[i].at = "select"
    /\ chan[i].tx = "dropped"
    /\ PumpExit(i)
    /\ UNCHANGED <<table, TUNNEL, lock, pc, loc, snap, last>>
    /\ ret' = NoRets
    /\ UNCHANGED <<observe, io, input, output, cloud, saved, dep, app, routed>>

\* select! arm `_ = &mut stop_rx => break`: the sender sent or was dropped
PumpStop(i) ==
    /\ pump[i] = "looping"
    /\ io[i].at = "select"
    /\ chan[i].tx \in {"sent", "dropped"}
    /\ PumpExit(i)
    /\ UNCHANGED <<table, TUNNEL, lock, pc, loc, snap, last>>
    /\ ret' = NoRets
    /\ UNCHANGED <<observe, io, input, output, cloud, saved, dep, app, routed>>

\* ---------------------------------------------------------------- pump loop body

\* the arms of the select!, in the order `biased` polls them
ARM_ORDER == <<"stop", "timer", "tun", "udp">>

\* the future of an arm would complete if polled now
Ready(i, arm) ==
    IF arm = "stop" THEN chan[i].tx \in {"sent", "dropped"}
    ELSE IF arm = "timer" THEN io[i].timer
    ELSE IF arm = "tun" THEN io[i].tun # "none"
    ELSE io[i].udp # "none"

\* variant of SelectArm: the arms are polled from the last to the first
SelectArm_Reversed(i) ==
    IF Ready(i, "udp") THEN "udp"
    ELSE IF Ready(i, "tun") THEN "tun"
    ELSE IF Ready(i, "timer") THEN "timer"
    ELSE IF Ready(i, "stop") THEN "stop"
    ELSE "none"

\* tokio::select! { biased; .. }: the first arm, in order, whose future is ready
SelectArm(i) ==
    LET ready == SelectSeq(ARM_ORDER, LAMBDA a : Ready(i, a))
    IN  IF ready = <<>> THEN "none" ELSE Head(ready)

\* the frame of a step of the pump loop body or of its event sources
PumpFrameIO ==
    /\ ret' = NoRets
    /\ UNCHANGED <<table, TUNNEL, lock, pc, loc, tuns, pump, chan, snap, last,
                   observe, cloud, saved, dep, app, routed>>

PumpFrame == PumpFrameIO /\ UNCHANGED <<input, output>>

\* packets and datagrams that arrive in a run that records traffic
MaxPackets == 2

\* whether this run records traffic
Recording == input # <<>>

\* a run that records traffic numbers the packets and datagrams as they arrive:
\* input counts the arrivals, output lists what the loop read, sent, received and wrote
NoTraffic ==
    /\ input = [tun |-> 0, udp |-> 0]
    /\ output = [read |-> <<>>, sent |-> <<>>, doneTun |-> 0,
                 recv |-> <<>>, written |-> <<>>, doneUdp |-> 0]

\* xs with x appended unless x is already its last element
AppendOnce(xs, x) == IF xs # <<>> /\ xs[Len(xs)] = x THEN xs ELSE Append(xs, x)

\* the 200 ms interval comes due
TimerTick(i) ==
    /\ pump[i] = "looping"
    /\ ~io[i].timer
    /\ io' = [io EXCEPT ![i].timer = TRUE]
    /\ PumpFrame

\* the TUN device has something for tun_reader.read: a packet, a zero-length read
\* or an error
TunReadable(i) ==
    /\ pump[i] = "looping"
    /\ io[i].tun = "none"
    /\ \E r \in {"packet", "empty", "error"} :
          IF Recording /\ r = "packet"
          THEN /\ input.tun + input.udp < MaxPackets
               /\ input' = [input EXCEPT !.tun = @ + 1]
               /\ io' = [io EXCEPT ![i].tun = r, ![i].pkt = input.tun + 1]
          ELSE /\ input' = input
               /\ io' = [io EXCEPT ![i].tun = r]
    /\ output' = output
    /\ PumpFrameIO

\* the UDP socket has something for udp.recv: a datagram or an error
UdpReadable(i) ==
    /\ pump[i] = "looping"
    /\ io[i].udp = "none"
    /\ \E r \in {"datagram", "error"} :
          IF Recording /\ r = "datagram"
          THEN /\ input.tun + input.udp < MaxPackets
               /\ input' = [input EXCEPT !.udp = @ + 1]
               /\ io' = [io EXCEPT ![i].udp = r, ![i].dgram = input.udp + 1]
          ELSE /\ input' = input
               /\ io' = [io EXCEPT ![i].udp = r]
    /\ output' = output
    /\ PumpFrameIO

\* variant of PumpSelect: select! is polled again while an arm's body is still running
PumpSelect_Anywhere(i) ==
    /\ pump[i] = "looping"
    /\ SelectArm(i) \in {"timer", "tun", "udp"}
    /\ io' = [io EXCEPT ![i].at = SelectArm(i),
                        ![i].timer = IF SelectArm(i) = "timer" THEN FALSE ELSE @]
    /\ output' = IF Recording /\ SelectArm(i) = "tun" /\ io[i].tun = "packet"
                 THEN [output EXCEPT !.read = Append(@, io[i].pkt)]
                 ELSE IF Recording /\ SelectArm(i) = "udp" /\ io[i].udp = "datagram"
                 THEN [output EXCEPT !.recv = Append(@, io[i].dgram)]
                 ELSE output
    /\ input' = input
    /\ PumpFrameIO

\* select! takes the timer, TUN or UDP arm (the stop arm is PumpStop)
PumpSelect(i) ==
    /\ pump[i] = "looping"
    /\ io[i].at = "select"
    /\ SelectArm(i) \in {"timer", "tun", "udp"}
    /\ io' = [io EXCEPT ![i].at = SelectArm(i),
                        ![i].timer = IF SelectArm(i) = "timer" THEN FALSE ELSE @]
    /\ output' = IF Recording /\ SelectArm(i) = "tun" /\ io[i].tun = "packet"
                 THEN [output EXCEPT !.read = Append(@, io[i].pkt)]
                 ELSE IF Recording /\ SelectArm(i) = "udp" /\ io[i].udp = "datagram"
                 THEN [output EXCEPT !.recv = Append(@, io[i].dgram)]
                 ELSE output
    /\ input' = input
    /\ PumpFrameIO

\* timer arm: tunn.update_timers, then udp.send of what it returned
PumpTimer(i) ==
    /\ pump[i] = "looping"
    /\ io[i].at = "timer"
    /\ \E r \in {"sent", "send_err", "timer_err", "nothing"} :
          io' = [io EXCEPT ![i].at = "select", ![i].did = r]
    /\ PumpFrame

\* variant of PumpTun: a failed or zero-length read ends the loop
PumpTun_ExitOnBadRead(i) ==
    /\ pump[i] = "looping"
    /\ io[i].at = "tun"
    /\ IF io[i].tun = "packet"
       THEN /\ \E r \in {"sent", "send_err", "encap_err", "nothing"} :
                  io' = [io EXCEPT ![i].at = "select", ![i].tun = "none", ![i].did = r,
                                   ![i].pkt = 0]
            /\ UNCHANGED <<tuns, pump, chan>>
       ELSE /\ io' = [io EXCEPT ![i].at = "select", ![i].tun = "none"]
            /\ PumpExit(i)
    /\ ret' = NoRets
    /\ UNCHANGED <<table, TUNNEL, lock, pc, loc, snap, last, observe, input, output, cloud, saved, dep, app, routed>>

\* TUN arm: Ok(n) if n > 0 is encapsulated and sent; anything else is dropped
PumpTun(i) ==
    /\ pump[i] = "looping"
    /\ io[i].at = "tun"
    /\ IF io[i].tun = "packet"
       THEN \E r \in {"sent", "send_err", "encap_err", "nothing"} :
               /\ io' = [io EXCEPT ![i].at = "select", ![i].tun = "none", ![i].did = r,
                                   ![i].pkt = 0]
               /\ output' = IF Recording
                            THEN [output EXCEPT
                                      !.sent = IF r \in {"sent", "send_err"}
                                               THEN Append(@, io[i].pkt) ELSE @,
                                      !.doneTun = @ + 1]
                            ELSE output
       ELSE /\ io' = [io EXCEPT ![i].at = "select", ![i].tun = "none",
                                ![i].did = IF io[i].tun = "empty" THEN "zero_read"
                                           ELSE "read_err"]
            /\ output' = output
    /\ input' = input
    /\ PumpFrameIO

\* UDP arm: Ok(n) enters the decapsulate loop, Err is logged
PumpUdp(i) ==
    /\ pump[i] = "looping"
    /\ io[i].at = "udp"
    /\ IF io[i].udp = "datagram"
       THEN io' = [io EXCEPT ![i].at = "flush", ![i].udp = "none",
                             ![i].data_slice = "datagram",
                             ![i].udp_buf = io[i].dgram, ![i].dgram = 0]
       ELSE io' = [io EXCEPT ![i].at = "select", ![i].udp = "none", ![i].did = "recv_err"]
    /\ PumpFrame

\* what tunn.decapsulate returned, with the outcome of the write or send that follows
DecapResults ==
    {"to_tunnel", "to_tunnel_write_err", "to_network", "to_network_send_err",
     "done", "decap_err"}

\* variant of PumpDecap: the inner loop is left after the first result
PumpDecap_OneResult(i) ==
    /\ pump[i] = "looping"
    /\ io[i].at = "flush"
    /\ \E r \in DecapResults :
          io' = [io EXCEPT ![i].at = "select", ![i].did = r, ![i].data_slice = "none",
                           ![i].udp_buf = 0]
    /\ PumpFrame

\* one turn of the inner `loop`: tunn.decapsulate(None, data_slice, ..); a result to
\* write or send is written or sent and data_slice becomes empty; Done and Err break
PumpDecap(i) ==
    /\ pump[i] = "looping"
    /\ io[i].at = "flush"
    /\ \E r \in DecapResults :
          /\ io' = [io EXCEPT ![i].at = IF r \in {"done", "decap_err"} THEN "select"
                                        ELSE "flush",
                              ![i].did = r,
                              ![i].data_slice = IF r \in {"done", "decap_err"} THEN "none"
                                                ELSE "empty",
                              ![i].udp_buf = IF r \in {"done", "decap_err"} THEN 0 ELSE @]
          /\ output' = IF ~Recording THEN output
                       ELSE IF r \in {"to_tunnel", "to_tunnel_write_err"}
                       THEN [output EXCEPT !.written = AppendOnce(@, io[i].udp_buf)]
                       ELSE IF r \in {"done", "decap_err"}
                       THEN [output EXCEPT !.doneUdp = @ + 1]
                       ELSE output
    /\ input' = input
    /\ PumpFrameIO

\* ---------------------------------------------------------------- deploy and destroy

\* the calls of a deploy in order: the resource a call creates at the provider when it
\* succeeds, and the DeploymentState fields stored and saved once the helper that made
\* the call has returned
DeployPlans ==
    [ aws |-> <<[api |-> "load_credentials", creates |-> {}, records |-> {}],
                [api |-> "DescribeImages", creates |-> {}, records |-> {}],
                [api |-> "CreateVpc", creates |-> {"vpc"}, records |-> {}],
                [api |-> "ModifyVpcAttribute", creates |-> {}, records |-> {}],
                [api |-> "ModifyVpcAttribute", creates |-> {}, records |-> {}],
                [api |-> "CreateTags", creates |-> {}, records |-> {"vpc"}],
                [api |-> "CreateInternetGateway", creates |-> {"igw"}, records |-> {}],
                [api |-> "AttachInternetGateway", creates |-> {}, records |-> {}],
                [api |-> "CreateTags", creates |-> {}, records |-> {"igw"}],
                [api |-> "CreateSubnet", creates |-> {"subnet"}, records |-> {}],
                [api |-> "ModifySubnetAttribute", creates |-> {}, records |-> {}],
                [api |-> "CreateTags", creates |-> {}, records |-> {"subnet"}],
                [api |-> "CreateRouteTable", creates |-> {"rt"}, records |-> {}],
                [api |-> "CreateRoute", creates |-> {}, records |-> {}],
                [api |-> "AssociateRouteTable", creates |-> {}, records |-> {}],
                [api |-> "CreateTags", creates |-> {}, records |-> {"rt"}],
                [api |-> "CreateSecurityGroup", creates |-> {"sg"}, records |-> {}],
                [api |-> "AuthorizeSecurityGroupIngress", creates |-> {}, records |-> {}],
                [api |-> "CreateTags", creates |-> {}, records |-> {"sg"}],
                [api |-> "CreateKeyPair", creates |-> {"key"}, records |-> {"key"}],
                [api |-> "RunInstances", creates |-> {"instance"}, records |-> {"instance"}],
                [api |-> "DescribeInstances", creates |-> {}, records |-> {}],
                [api |-> "AllocateAddress", creates |-> {"eip"}, records |-> {}],
                [api |-> "AssociateAddress", creates |-> {"assoc"}, records |-> {"eip", "assoc"}],
                [api |-> "ssh_connect", creates |-> {}, records |-> {}],
                [api |-> "configure_wireguard", creates |-> {}, records |-> {}]>>,
      do |-> <<[api |-> "load_do_credentials", creates |-> {}, records |-> {}],
               [api |-> "validate", creates |-> {}, records |-> {}],
               [api |-> "POST /account/keys", creates |-> {"do_key"}, records |-> {"do_key"}],
               [api |-> "POST /droplets", creates |-> {"droplet"}, records |-> {"droplet"}],
               [api |-> "POST /firewalls", creates |-> {"firewall"}, records |-> {"firewall"}],
               [api |-> "GET /droplets", creates |-> {}, records |-> {"ip"}],
               [api |-> "ssh_connect", creates |-> {}, records |-> {}],
               [api |-> "configure_wireguard", creates |-> {}, records |-> {}]>> ]

DeployModes == DOMAIN DeployPlans

\* what a call can do: succeed; fail; succeed without an id in the response
CallOutcomes(c) == {"ok", "err"} \cup (IF c.creates # {} THEN {"no_id"} ELSE {})

DeployFailed == [dep EXCEPT !.cmd = "done", !.result = "deploy_err"]

\* the DeploymentState value a deploy holds in memory; a new one has no auto_destroy_at
DeployState(status, fields, at) ==
    [mode |-> dep.mode, status |-> status, fields |-> fields, auto_destroy_at |-> at,
     gen |-> dep.gen]

\* the number the next deploy call gets
NextGen == IF app.deploys < 0 THEN 0 ELSE app.deploys + 1

\* deploy_vpn / deploy_do up to the first load: the fresh state value is saved
StartDeploy(mode, hours) ==
    /\ app.up
    /\ dep.cmd \in {"none", "done"}
    /\ app.deploys < MaxDeploys
    /\ app' = [app EXCEPT !.deploys = IF @ < 0 THEN @ ELSE @ + 1]
    /\ \E saveOk \in BOOLEAN :
          IF saveOk
          THEN /\ saved' = Some([mode |-> mode, status |-> "Deploying", fields |-> {},
                                 auto_destroy_at |-> None, gen |-> NextGen])
               /\ dep' = [cmd |-> "deploy", mode |-> mode, at |-> 1, state |-> {},
                          result |-> "none", hours |-> hours, gen |-> NextGen,
                          by |-> "none", timer |-> 0]
          ELSE /\ saved' = saved
               /\ dep' = [cmd |-> "done", mode |-> mode, at |-> 0, state |-> {},
                          result |-> "deploy_err", hours |-> hours, gen |-> NextGen,
                          by |-> "none", timer |-> 0]
    /\ UNCHANGED <<table, TUNNEL, lock, pc, loc, ret, tuns, pump, chan, snap, last,
                   observe, io, input, output, cloud, routed>>

\* the next call of the running deploy, up to the save_state that follows it
DeployCall ==
    /\ dep.cmd = "deploy"
    /\ dep.at <= Len(DeployPlans[dep.mode])
    /\ LET c == DeployPlans[dep.mode][dep.at]
       IN  \E o \in CallOutcomes(c), saveOk \in BOOLEAN :
              /\ cloud' = IF o = "err" THEN cloud ELSE cloud \cup c.creates
              /\ IF o # "ok"
                 THEN dep' = DeployFailed /\ saved' = saved
                 ELSE IF c.records = {}
                 THEN dep' = [dep EXCEPT !.at = @ + 1] /\ saved' = saved
                 ELSE IF saveOk
                 THEN /\ dep' = [dep EXCEPT !.at = @ + 1, !.state = @ \cup c.records]
                      /\ saved' = Some(DeployState("Deploying", dep.state \cup c.records,
                                                   None))
                 ELSE dep' = DeployFailed /\ saved' = saved
    /\ UNCHANGED <<table, TUNNEL, lock, pc, loc, ret, tuns, pump, chan, snap, last,
                   observe, io, input, output, app, routed>>

\* the end of a deploy: the client config and the state with status Deployed are saved,
\* auto_destroy_at set to now + hours when auto_destroy_hours was given, and after the
\* save a timer is spawned for that deadline
DeployFinish ==
    /\ dep.cmd = "deploy"
    /\ dep.at = Len(DeployPlans[dep.mode]) + 1
    /\ LET at == IF IsSome(dep.hours) THEN Some(app.now + Unwrap(dep.hours)) ELSE None
       IN  \E saveOk \in BOOLEAN :
              IF saveOk
              THEN /\ saved' = Some(DeployState("Deployed", dep.state, at))
                   /\ dep' = [dep EXCEPT !.cmd = "done", !.result = "deployed"]
                   /\ app' = IF IsSome(at)
                             THEN [app EXCEPT !.timers = @ \cup {Timer(Unwrap(at), dep.gen)}]
                             ELSE app
              ELSE saved' = saved /\ dep' = DeployFailed /\ app' = app
    /\ UNCHANGED <<table, TUNNEL, lock, pc, loc, ret, tuns, pump, chan, snap, last,
                   observe, io, input, output, cloud, routed>>

\* the resources teardown deletes for a set of state fields
TeardownTargets(fields) == fields \ {"ip"}

\* destroy_vpn_internal up to the save of status Destroying, called by the command
\* destroy_vpn or by a timer: with no deployment it fails; the load, the credentials
\* or the save can fail
DestroyBegin(by, gen) ==
    /\ app.up
    /\ dep.cmd \in {"none", "done"}
    /\ IF saved = None
       THEN /\ dep' = [dep EXCEPT !.cmd = "done", !.result = "destroy_err", !.by = by,
                            !.timer = gen]
            /\ saved' = saved
       ELSE \E ok \in BOOLEAN :
              IF ok
              THEN /\ saved' = Some([Unwrap(saved) EXCEPT !.status = "Destroying"])
                   /\ dep' = [dep EXCEPT !.cmd = "destroy", !.result = "none",
                                         !.mode = Unwrap(saved).mode, !.by = by,
                                         !.timer = gen]
              ELSE /\ saved' = saved
                   /\ dep' = [dep EXCEPT !.cmd = "done", !.result = "destroy_err",
                                         !.by = by, !.timer = gen]

\* the command destroy_vpn
DestroyVpn ==
    /\ DestroyBegin("command", 0)
    /\ UNCHANGED <<table, TUNNEL, lock, pc, loc, ret, tuns, pump, chan, snap, last,
                   observe, io, input, output, cloud, app, routed>>

\* the rest of destroy_vpn_internal: with AWS build_config can fail; else every recorded
\* resource is deleted, failures ignored, and the state file removed; the result
\* "destroyed_partly" is an Ok returned after the deletion of a resource failed
DestroyFinish ==
    /\ dep.cmd = "destroy"
    /\ \/ /\ dep.mode = "aws"
          /\ dep' = [dep EXCEPT !.cmd = "done", !.result = "destroy_err"]
          /\ UNCHANGED <<cloud, saved>>
       \/ \E failed \in SUBSET (TeardownTargets(Unwrap(saved).fields) \cap cloud),
             clearOk \in BOOLEAN :
             /\ cloud' = cloud \ (TeardownTargets(Unwrap(saved).fields) \ failed)
             /\ saved' = IF clearOk THEN None ELSE saved
             /\ dep' = [dep EXCEPT !.cmd = "done", !.state = {},
                                   !.result = IF ~clearOk THEN "destroy_err"
                                              ELSE IF failed = {} THEN "destroyed"
                                              ELSE "destroyed_partly"]
    /\ UNCHANGED <<table, TUNNEL, lock, pc, loc, ret, tuns, pump, chan, snap, last,
                   observe, io, input, output, app, routed>>

\* the command reset_deployment_state: the state file is removed
ResetDeploymentState ==
    /\ app.up
    /\ dep.cmd \in {"none", "done"}
    /\ \E clearOk \in BOOLEAN :
          /\ saved' = IF clearOk THEN None ELSE saved
          /\ dep' = [dep EXCEPT !.cmd = "done",
                                !.result = IF clearOk THEN "reset" ELSE "reset_err"]
    /\ UNCHANGED <<table, TUNNEL, lock, pc, loc, ret, tuns, pump, chan, snap, last,
                   observe, io, input, output, cloud, app, routed>>

\* time passes
Tick ==
    /\ app.now < MaxNow
    /\ app' = [app EXCEPT !.now = @ + 1]
    /\ UNCHANGED <<table, TUNNEL, lock, pc, loc, ret, tuns, pump, chan, snap, last,
                   observe, io, input, output, cloud, saved, dep, routed>>

\* a spawned timer's sleep has ended: it loads the state and, when the status is
\* Deployed, calls destroy_vpn_internal, whose error is only logged; else it skips
TimerFire(tm) ==
    /\ app.up
    /\ tm \in app.timers
    /\ tm.at <= app.now
    /\ app' = [app EXCEPT !.timers = @ \ {tm}]
    /\ \E loadOk \in BOOLEAN :
          IF loadOk /\ saved # None /\ Unwrap(saved).status = "Deployed"
          THEN DestroyBegin("timer", tm.gen)
          ELSE UNCHANGED <<saved, dep>>
    /\ UNCHANGED <<table, TUNNEL, lock, pc, loc, ret, tuns, pump, chan, snap, last,
                   observe, io, input, output, cloud, routed>>

\* the app process ends: its timers and its running command end with it
AppExit ==
    /\ app.up
    /\ app' = [app EXCEPT !.up = FALSE, !.timers = {}]
    /\ dep' = IdleDep
    /\ UNCHANGED <<table, TUNNEL, lock, pc, loc, ret, tuns, pump, chan, snap, last,
                   observe, io, input, output, cloud, saved, routed>>

\* what the startup recovery of run() makes of a loaded state value
Recovered(st, now) ==
    IF st.status = "Deploying" THEN [st EXCEPT !.status = "Failed"]
    ELSE IF st.status = "Destroying"
    THEN [st EXCEPT !.status = "Deployed", !.auto_destroy_at = None]
    ELSE IF st.status = "Deployed" /\ IsSome(st.auto_destroy_at)
            /\ ~(Unwrap(st.auto_destroy_at) > now)
    THEN [st EXCEPT !.auto_destroy_at = None]
    ELSE st

\* the timers the setup closure of run() spawns for a persisted state
SetupTimers(file, now) ==
    IF file # None /\ Unwrap(file).status = "Deployed"
       /\ IsSome(Unwrap(file).auto_destroy_at)
       /\ Unwrap(Unwrap(file).auto_destroy_at) > now
    THEN {Timer(Unwrap(Unwrap(file).auto_destroy_at), Unwrap(file).gen)}
    ELSE {}

\* run(): the startup recovery, whose load can fail and whose save_state result is
\* dropped, then the setup closure, which loads the state again
AppStart ==
    /\ ~app.up
    /\ \E loadOk \in BOOLEAN, saveOk \in BOOLEAN, setupLoadOk \in BOOLEAN :
          /\ saved' = IF loadOk /\ saveOk /\ saved # None
                      THEN Some(Recovered(Unwrap(saved), app.now))
                      ELSE saved
          /\ app' = [app EXCEPT !.up = TRUE,
                                !.timers = IF setupLoadOk THEN SetupTimers(saved', app.now)
                                           ELSE {}]
    /\ UNCHANGED <<table, TUNNEL, lock, pc, loc, ret, tuns, pump, chan, snap, last,
                   observe, io, input, output, cloud, dep, routed>>

\* ---------------------------------------------------------------- specifications

PumpNext == \E i \in Ids : PumpInit(i) \/ PumpStop(i)

CallerNext(t, names) ==
    \/ \E c \in names : CallConnect(t, c)
    \/ CallDisconnect(t)
    \/ IsActive(t)
    \/ DisconnectTake(t)
    \/ DisconnectStop(t)
    \/ RemoveRouteStep(t)
    \/ DisconnectReturn(t)
    \/ ConnectParse(t)
    \/ ConnectDecodeKeys(t)
    \/ ConnectGetGateway(t)
    \/ ConnectCreateTun(t)
    \/ SetupRoutesPin(t)
    \/ RunIpRouteAdd(t)
    \/ ConnectSpawn(t)
    \/ ConnectStore(t)

\* one caller thread: supervisor calls are sequential
Next ==
    \/ \E t \in SeqCallers : CallerNext(t, ConfigNames)
    \/ PumpNext

Spec == Init /\ [][Next]_vars

\* two caller threads: supervisor calls may interleave; the host has a default
\* route and connect is called with the full-tunnel text or the text without a key
ConcConfigNames == {"full", "nokey"}

ConcStart ==
    /\ table = {ViaRoute(DEFAULT, HostGateway)}
    /\ TUNNEL = None
    /\ lock = 0
    /\ pc = [t \in ConcCallers |-> "idle"]
    /\ loc = [t \in ConcCallers |-> IdleLoc]
    /\ ret = NoRets
    /\ tuns = {}
    /\ pump = [i \in Ids |-> "none"]
    /\ chan = [i \in Ids |-> NoChan]
    /\ snap = [t \in ConcCallers |-> None]
    /\ last = "none"
    /\ observe = FALSE
    /\ io = [i \in Ids |-> IdleIo]
    /\ input = <<>>
    /\ output = None
    /\ NoDeploy
    /\ app = QuietApp

InitConc == ConcStart /\ routed = <<>>

\* the same start, in a run that keeps the route history
InitActive == ConcStart /\ routed = [i \in Ids |-> NoRoutes]

NextConc ==
    \/ \E t \in ConcCallers : CallerNext(t, ConcConfigNames)
    \/ PumpNext

SpecConc == InitConc /\ [][NextConc]_vars

\* the same two callers, each connect called with the full-tunnel text
NextActive ==
    \/ \E t \in ConcCallers : CallerNext(t, {"full"})
    \/ PumpNext

SpecActive == InitActive /\ [][NextActive]_vars

\* the pump thread of tunnel i
PumpThread(i) ==
    \/ PumpInit(i)
    \/ PumpStop(i)
    \/ PumpSelect(i)
    \/ PumpTimer(i)
    \/ PumpTun(i)
    \/ PumpUdp(i)
    \/ PumpDecap(i)

\* the caller is back from connect and the pump thread of tunnel 1 is about to start
PumpSpawned ==
    /\ lock = 0
    /\ pc = [t \in ConcCallers |-> "idle"]
    /\ loc = [t \in ConcCallers |-> IdleLoc]
    /\ ret = [NoRets EXCEPT ![1] = RetOk("connect")]
    /\ tuns = {1}
    /\ pump = [i \in Ids |-> IF i = 1 THEN "starting" ELSE "none"]
    /\ chan = [i \in Ids |-> IF i = 1 THEN [tx |-> "held", rx |-> "alive"] ELSE NoChan]
    /\ snap = [t \in ConcCallers |-> None]
    /\ last = "none"
    /\ io = [i \in Ids |-> IdleIo]
    /\ NoDeploy
    /\ app = QuietApp
    /\ routed = <<>>

\* a full tunnel just connected: record stored, routes in place, pump thread spawned
PumpStart ==
    /\ table = {ViaRoute(DEFAULT, HostGateway),
                ViaRoute(IpToString(<<1, 2, 3, 4>>), HostGateway),
                DevRoute(HALF_LOW, TUN_NAME), DevRoute(HALF_HIGH, TUN_NAME)}
    /\ TUNNEL = Some([id |-> 1, server_ip |-> IpToString(<<1, 2, 3, 4>>),
                      gateway |-> Some(HostGateway)])
    /\ PumpSpawned

\* a split tunnel just connected on a host without a default route
SplitPumpStart ==
    /\ table = {DevRoute(SplitCidrs, TUN_NAME)}
    /\ TUNNEL = Some([id |-> 1, server_ip |-> IpToString(<<1, 2, 3, 4>>),
                      gateway |-> None])
    /\ PumpSpawned

InitPump ==
    /\ PumpStart
    /\ observe = FALSE
    /\ input = <<>>
    /\ output = None

\* the same start, in a run that records the traffic
InitTraffic ==
    /\ SplitPumpStart
    /\ observe = FALSE
    /\ NoTraffic

\* the pump loop of that tunnel with its event sources, and a caller that disconnects
NextPump ==
    \/ \E t \in SeqCallers :
          \/ CallDisconnect(t)
          \/ DisconnectTake(t)
          \/ DisconnectStop(t)
          \/ RemoveRouteStep(t)
          \/ DisconnectReturn(t)
    \/ \E i \in Ids :
          \/ TimerTick(i)
          \/ TunReadable(i)
          \/ UdpReadable(i)
          \/ PumpThread(i)

\* the pump thread is scheduled fairly
SpecPump == InitPump /\ [][NextPump]_vars /\ \A i \in Ids : WF_vars(PumpThread(i))

SpecTraffic == InitTraffic /\ [][NextPump]_vars

\* no tunnel, no call in progress, nothing deployed
NoTunnel ==
    /\ NoDeploy
    /\ routed = <<>>
    /\ table = {}
    /\ TUNNEL = None
    /\ lock = 0
    /\ pc = [t \in ConcCallers |-> "idle"]
    /\ loc = [t \in ConcCallers |-> IdleLoc]
    /\ ret = NoRets
    /\ tuns = {}
    /\ pump = [i \in Ids |-> "none"]
    /\ chan = [i \in Ids |-> NoChan]
    /\ snap = [t \in ConcCallers |-> None]
    /\ last = "none"
    /\ observe = FALSE
    /\ io = [i \in Ids |-> IdleIo]

\* the state of a run that studies a function
NoTunnelState == NoTunnel /\ app = QuietApp

\* the frame of a step that applies a function to input
FunctionFrame ==
    UNCHANGED <<table, TUNNEL, lock, pc, loc, ret, tuns, pump, chan, snap, last,
                observe, io, input, cloud, saved, dep, app, routed>>

\* AllowedIPs lists of up to two entries
AllowedLists ==
    {<<>>} \cup {<<a>> : a \in {FULL_TUNNEL, SplitCidrs}}
           \cup {<<a, b>> : a, b \in {FULL_TUNNEL, SplitCidrs}}

\* arguments of setup_routes / remove_routes, with what the platform answers
RouteInputs ==
    [server_ip : {IpToString(<<1, 2, 3, 4>>)},
     gateway : {None, Some(HostGateway)},
     allowed_ips : AllowedLists,
     ran : BOOLEAN,
     if_index : {None, Some(7)}]

InitRoutes ==
    /\ NoTunnelState
    /\ input \in RouteInputs
    /\ output = [p \in Platforms |-> [setup |-> None, remove |-> None]]

\* setup_routes runs on platform p
SetupRoutesOn(p) ==
    /\ output[p].setup = None
    /\ output' = [output EXCEPT ![p].setup = Some(setup_routes_on(p, input))]
    /\ FunctionFrame

\* remove_routes runs on platform p
RemoveRoutesOn(p) ==
    /\ output[p].remove = None
    /\ output' = [output EXCEPT ![p].remove = Some(remove_routes_on(p, input))]
    /\ FunctionFrame

NextRoutes == \E p \in Platforms : SetupRoutesOn(p) \/ RemoveRoutesOn(p)

SpecRoutes == InitRoutes /\ [][NextRoutes]_vars

InitParse ==
    /\ NoTunnelState
    /\ input \in ParseInputs
    /\ output = [parsed |-> None, keys |-> None]

\* let cfg = ParsedClientConfig::parse(conf)
ParseConf ==
    /\ output.parsed = None
    /\ output' = [output EXCEPT !.parsed = Some(parse(input))]
    /\ FunctionFrame

\* the two decode_key calls that follow a successful parse
DecodeParsedKeys ==
    /\ IsSome(output.parsed)
    /\ Unwrap(output.parsed).ok
    /\ output.keys = None
    /\ output' = [output EXCEPT !.keys =
                      Some([private |-> decode_key(Unwrap(output.parsed).val.private_key_b64),
                            public |-> decode_key(Unwrap(output.parsed).val.server_public_key_b64)])]
    /\ FunctionFrame

NextParse == ParseConf \/ DecodeParsedKeys

SpecParse == InitParse /\ [][NextParse]_vars

\* lines put into a config text: a blank one, a comment that holds an assignment, a key
\* without `=`, three headers, and assignments of an [Interface] and of a [Peer] key
ExtraLines ==
    { <<" ">>,
      <<"#", " ">> \o Line(K_DNS, <<"9", ".", "9", ".", "9", ".", "9">>),
      K_DNS,
      <<"[", "O", "t", "h", "e", "r", "]">>,
      <<" ">> \o S_Peer \o <<" ">>,
      S_Interface,
      Line(K_PrivateKey, ShortKey),
      Line(K_PublicKey, ShortKey),
      Line(K_DNS, <<"8", ".", "8", ".", "8", ".", "8">>) }

\* conf with the line l put after its n-th line
InsertLine(conf, n, l) == SubSeq(conf, 1, n) \o <<l>> \o SubSeq(conf, n + 1, Len(conf))

\* the full-tunnel text with one or two lines put in anywhere
SectionInputs ==
    LET base == Configs["full"]
        one == { InsertLine(base, n, l) : n \in 0..Len(base), l \in ExtraLines }
    IN  one \cup UNION { { InsertLine(c, n, l) : n \in 0..Len(c), l \in ExtraLines } :
                            c \in one }

InitSections ==
    /\ NoTunnelState
    /\ input \in SectionInputs
    /\ output = [parsed |-> None, keys |-> None]

SpecSections == InitSections /\ [][NextParse]_vars

\* the byte value v, n times
Fill(n, v) == [k \in 1..n |-> v]

\* keys as generate_keypair makes them: the base64 text of 32 bytes
RenderKeys == {TestPrivateKey, TestPublicKey, Base64Encode(Fill(KeyLen, 255))}

\* arguments of the two renderers
RenderInputs ==
    [priv : RenderKeys, pub : RenderKeys,
     ip : {<<1, 2, 3, 4>>, <<203, 0, 113, 10>>, <<0, 0, 0, 0>>, <<255, 255, 255, 255>>},
     port : {0, 1, 25, 12345, 51820, U16Max}]

InitRender ==
    /\ NoTunnelState
    /\ input \in RenderInputs
    /\ output = [client |-> None, parsed |-> None, server |-> None]

\* let client_conf = render_client_config(priv, pub, ip, port)
RenderClient ==
    /\ output.client = None
    /\ output' = [output EXCEPT !.client =
                      Some(render_client_config(input.priv, input.pub,
                                                IpToString(input.ip), input.port))]
    /\ FunctionFrame

\* ParsedClientConfig::parse(&client_conf)
ParseRendered ==
    /\ IsSome(output.client)
    /\ output.parsed = None
    /\ output' = [output EXCEPT !.parsed = Some(parse(Lines(Unwrap(output.client))))]
    /\ FunctionFrame

\* let server_conf = render_server_config(priv, pub, port)
RenderServer ==
    /\ output.server = None
    /\ output' = [output EXCEPT !.server =
                      Some(render_server_config(input.priv, input.pub, input.port))]
    /\ FunctionFrame

NextRender == RenderClient \/ ParseRendered \/ RenderServer

SpecRender == InitRender /\ [][NextRender]_vars

\* n bytes starting after a and stepping by d
Ramp(n, a, d) == [k \in 1..n |-> (a + k * d) % 256]

\* byte values of several lengths around the key length
KeyByteInputs ==
    { Ramp(n, a, d) : n \in {0, 1, 2, 16, KeyLen - 1, KeyLen, KeyLen + 1},
                      a \in {0, 97, 255}, d \in {0, 1, 37} }

\* texts that are not the base64 of 32 bytes: outside the alphabet, 16 bytes, padding
\* missing, padding doubled, non-zero trailing bits, surrounding blanks, a line end,
\* the URL-safe alphabet, the empty text
BadKeyTexts ==
    { BadKey, ShortKey,
      <<"y", "A", "n", "z", "5", "T", "F", "+", "l", "X", "X", "J", "t", "e", "1", "4", "t", "j", "i", "3", "z", "l", "M", "N", "q", "+", "h", "d", "2", "r", "Y", "U", "I", "g", "J", "B", "g", "B", "3", "f", "B", "m", "k">>,
      <<"y", "A", "n", "z", "5", "T", "F", "+", "l", "X", "X", "J", "t", "e", "1", "4", "t", "j", "i", "3", "z", "l", "M", "N", "q", "+", "h", "d", "2", "r", "Y", "U", "I", "g", "J", "B", "g", "B", "3", "f", "B", "m", "k", "=", "=">>,
      <<"y", "A", "n", "z", "5", "T", "F", "+", "l", "X", "X", "J", "t", "e", "1", "4", "t", "j", "i", "3", "z", "l", "M", "N", "q", "+", "h", "d", "2", "r", "Y", "U", "I", "g", "J", "B", "g", "B", "3", "f", "B", "m", "l", "=">>,
      <<" ", "y", "A", "n", "z", "5", "T", "F", "+", "l", "X", "X", "J", "t", "e", "1", "4", "t", "j", "i", "3", "z", "l", "M", "N", "q", "+", "h", "d", "2", "r", "Y", "U", "I", "g", "J", "B", "g", "B", "3", "f", "B", "m", "k", "=">>,
      <<"y", "A", "n", "z", "5", "T", "F", "+", "l", "X", "X", "J", "t", "e", "1", "4", "t", "j", "i", "3", "z", "l", "M", "N", "q", "+", "h", "d", "2", "r", "Y", "U", "I", "g", "J", "B", "g", "B", "3", "f", "B", "m", "k", "=">> \o <<"\n">>,
      <<"y", "A", "n", "z", "5", "T", "F", "-", "l", "X", "X", "J", "t", "e", "1", "4", "t", "j", "i", "3", "z", "l", "M", "N", "q", "-", "h", "d", "2", "r", "Y", "U", "I", "g", "J", "B", "g", "B", "3", "f", "B", "m", "k", "=">>,
      <<>> }

KeyInputs ==
    [kind : {"bytes"}, val : KeyByteInputs]
        \cup [kind : {"text"}, val : BadKeyTexts \cup {TestPrivateKey, TestPublicKey}]

InitKeys ==
    /\ NoTunnelState
    /\ input \in KeyInputs
    /\ output = [text |-> None, key |-> None]

\* STANDARD.encode(bytes)
EncodeKey ==
    /\ input.kind = "bytes"
    /\ output.text = None
    /\ output' = [output EXCEPT !.text = Some(Base64Encode(input.val))]
    /\ FunctionFrame

\* a key text that comes from a config file
GivenKeyText ==
    /\ input.kind = "text"
    /\ output.text = None
    /\ output' = [output EXCEPT !.text = Some(input.val)]
    /\ FunctionFrame

\* ParsedClientConfig::decode_key(text)
DecodeKey ==
    /\ IsSome(output.text)
    /\ output.key = None
    /\ output' = [output EXCEPT !.key = Some(decode_key(Unwrap(output.text)))]
    /\ FunctionFrame

NextKeys == EncodeKey \/ GivenKeyText \/ DecodeKey

SpecKeys == InitKeys /\ [][NextKeys]_vars

RECURSIVE JoinWith(_, _)
JoinWith(parts, sep) ==
    IF Len(parts) = 0 THEN <<>>
    ELSE IF Len(parts) = 1 THEN parts[1]
    ELSE parts[1] \o sep \o JoinWith(Tail(parts), sep)

\* elements of an AllowedIPs value: CIDRs, one with an inner blank, the empty element
AllowedElems ==
    {FULL_TUNNEL, SplitCidrs, <<":", ":", "/", "0">>, <<"1", "0", ".", "0", ".", "0", ".", "0", " ", "/", "8">>, <<>>}

AllowedElemLists ==
    {<<a>> : a \in AllowedElems} \cup {<<a, b>> : a, b \in AllowedElems}
        \cup {<<FULL_TUNNEL, a, b>> : a, b \in AllowedElems}

\* blanks written before and after each element
Paddings == {<<>>, <<" ">>, <<"\t", " ">>}

\* PersistentKeepalive texts, each with the u16 it denotes if it denotes one;
\* text None: the line is absent
KeepaliveCases ==
    { [text |-> None, value |-> None],
      [text |-> Some(<<"2", "5">>), value |-> Some(25)],
      [text |-> Some(<<"0">>), value |-> Some(0)],
      [text |-> Some(<<"6", "5", "5", "3", "5">>), value |-> Some(U16Max)],
      [text |-> Some(<<"+", "7">>), value |-> Some(7)],
      [text |-> Some(<<"0", "0", "7">>), value |-> Some(7)],
      [text |-> Some(<<"6", "5", "5", "3", "6">>), value |-> None],
      [text |-> Some(<<"9", "9", "9", "9", "9", "9", "9", "9">>), value |-> None],
      [text |-> Some(<<"-", "1">>), value |-> None],
      [text |-> Some(<<"a", "b", "c">>), value |-> None],
      [text |-> Some(<<"2", "5", "s">>), value |-> None],
      [text |-> Some(<<"2", " ", "5">>), value |-> None],
      [text |-> Some(<<"1", ".", "5">>), value |-> None],
      [text |-> Some(<<>>), value |-> None],
      [text |-> Some(<<"+">>), value |-> None] }

FieldInputs == [elems : AllowedElemLists, before : Paddings, after : Paddings,
                keepalive : KeepaliveCases]

\* the test text with the AllowedIPs and PersistentKeepalive values of case a
FieldsConf(a) ==
    << S_Interface,
       Line(K_PrivateKey, TestPrivateKey),
       Line(K_Address, <<"1", "0", ".", "8", ".", "0", ".", "2", "/", "3", "2">>),
       S_Peer,
       Line(K_PublicKey, TestPublicKey),
       Line(K_Endpoint, EndpointText),
       Line(K_AllowedIPs,
            JoinWith([k \in 1..Len(a.elems) |-> a.before \o a.elems[k] \o a.after], <<",">>)) >>
       \o (IF IsSome(a.keepalive.text)
           THEN <<Line(K_PersistentKeepalive, Unwrap(a.keepalive.text))>>
           ELSE <<>>)

InitFields ==
    /\ NoTunnelState
    /\ input \in FieldInputs
    /\ output = [conf |-> None, parsed |-> None]

\* the text is written
WriteFields ==
    /\ output.conf = None
    /\ output' = [output EXCEPT !.conf = Some(Unlines(FieldsConf(input)))]
    /\ FunctionFrame

\* ParsedClientConfig::parse(&config)
ParseFields ==
    /\ IsSome(output.conf)
    /\ output.parsed = None
    /\ output' = [output EXCEPT !.parsed = Some(parse(Lines(Unwrap(output.conf))))]
    /\ FunctionFrame

NextFields == WriteFields \/ ParseFields

SpecFields == InitFields /\ [][NextFields]_vars

InitDeploy ==
    /\ NoTunnelState
    /\ input = <<>>
    /\ output = None

NextDeploy ==
    \/ \E mode \in DeployModes : StartDeploy(mode, None)
    \/ DeployCall
    \/ DeployFinish
    \/ DestroyVpn
    \/ DestroyFinish

SpecDeploy == InitDeploy /\ [][NextDeploy]_vars

\* the app over its life: DigitalOcean deploys with and without auto_destroy_hours,
\* destroys and resets, the clock, the timers, and the process ending and starting
AutoDestroyHours == {None, Some(1)}

InitLife ==
    /\ NoTunnel
    /\ app = [QuietApp EXCEPT !.deploys = 0]
    /\ input = <<>>
    /\ output = None

NextLife ==
    \/ \E hours \in AutoDestroyHours : StartDeploy("do", hours)
    \/ DeployCall
    \/ DeployFinish
    \/ DestroyVpn
    \/ DestroyFinish
    \/ ResetDeploymentState
    \/ Tick
    \/ \E tm \in app.timers : TimerFire(tm)
    \/ AppExit
    \/ AppStart

SpecLife == InitLife /\ [][NextLife]_vars

TypeOK ==
    /\ lock \in {0} \cup ConcCallers
    /\ tuns \subseteq Ids
    /\ \A i \in Ids : pump[i] \in {"none", "starting", "looping", "exited"}

\* ---------------------------------------------------------------- properties

ServerIp == <<"1", ".", "2", ".", "3", ".", "4">>
PinRoute == ViaRoute(ServerIp, HostGateway)
HalfRoutes == {DevRoute(HALF_LOW, TUN_NAME), DevRoute(HALF_HIGH, TUN_NAME)}

\* caller t is in a connect call that got no gateway and whose AllowedIPs hold 0.0.0.0/0
NoGatewayFullTunnel(t) ==
    /\ pc[t] \in {"c_tun", "c_pin", "c_routes", "c_store"}
    /\ loc[t].gateway = None
    /\ IsFullTunnel(loc[t].allowed_ips)

\* C1: in a connect call whose gateway discovery returned none and whose AllowedIPs
\* contain 0.0.0.0/0, no TUN device is ever created
C1_NoTunWithoutGateway ==
    \A t \in SeqCallers : NoGatewayFullTunnel(t) => loc[t].id \notin tuns

\* C2: a step in which connect returns an error leaves neither the TUN device of that
\* call nor any route the call added: the table is the one the call began with
C2_ErrorRollsBack ==
    [][\A t \in SeqCallers :
          (ret'[t].fn = "connect" /\ ~ret'[t].ok)
              => (loc[t].id \notin tuns' /\ table' = loc[t].before)]_vars

\* C3: when a disconnect that follows a successful connect returns, the routing table
\* equals the table that connect began with
C3_DisconnectRestoresTable ==
    \A t \in SeqCallers :
        (ret[t].fn = "disconnect" /\ last = "disconnect" /\ IsSome(snap[t]))
            => table = Unwrap(snap[t])

\* caller t's connect call has created its TUN device, run a route addition or
\* spawned its pump thread
ConnectStarted(t) ==
    /\ loc[t].inConnect
    /\ \/ loc[t].id \in tuns
       \/ loc[t].adds # <<>>
       \/ pump[loc[t].id] # "none"

\* the tunnel of record p got its stop signal and remove_routes ran for it in t's call
TornDown(t, p) ==
    /\ chan[p.id].tx \in {"sent", "closed"}
    /\ loc[t].dels = RemovePlan(p.server_ip, p.gateway)

FullTunnelAdds(t) ==
    <<ViaRoute(loc[t].server_ip, Unwrap(loc[t].gateway)),
      DevRoute(HALF_LOW, TUN_NAME), DevRoute(HALF_HIGH, TUN_NAME)>>

\* caller t's connect call has AllowedIPs = 0.0.0.0/0 and a captured gateway
FullTunnelWithGateway(t) ==
    /\ pc[t] \in {"c_pin", "c_routes", "c_store"}
    /\ loc[t].allowed_ips = <<FULL_TUNNEL>>
    /\ IsSome(loc[t].gateway)

\* C5: with AllowedIPs = 0.0.0.0/0 and a captured gateway, the route additions run so
\* far are always a prefix of <<pin via gateway, 0.0.0.0/1 dev TUN, 128.0.0.0/1 dev TUN>>,
\* are exactly that sequence once the install is done, and never hold a 0.0.0.0/0 route
C5_FullTunnelAdditions ==
    \A t \in SeqCallers :
        FullTunnelWithGateway(t)
            => /\ Len(loc[t].adds) <= 3
               /\ \A k \in 1..Len(loc[t].adds) : loc[t].adds[k] = FullTunnelAdds(t)[k]
               /\ \A k \in 1..Len(loc[t].adds) : loc[t].adds[k].dst # FULL_TUNNEL
               /\ (pc[t] = "c_store" \/ (pc[t] = "c_routes" /\ loc[t].addTodo = <<>>))
                      => loc[t].adds = FullTunnelAdds(t)

C5_Witness ==
    /\ FullTunnelWithGateway(1)
    /\ pc[1] = "c_store"
    /\ loc[1].adds = <<PinRoute, DevRoute(HALF_LOW, TUN_NAME), DevRoute(HALF_HIGH, TUN_NAME)>>

\* C6: whenever a full-tunnel route (0.0.0.0/1 or 128.0.0.0/1 via the TUN) is in the
\* routing table, the endpoint pin via the original gateway is in it too
C6_AntiLoop == (HalfRoutes \cap table # {}) => PinRoute \in table

\* the ActiveTunnel records: the one in the cell and those a disconnect took out of it
ActiveTunnelCount ==
    (IF IsSome(TUNNEL) THEN 1 ELSE 0)
        + Cardinality({t \in ConcCallers : IsSome(loc[t].active)})

\* C7: under any interleaving of connect, disconnect and is_active calls of two
\* threads, at most one ActiveTunnel record exists
C7_AtMostOneActiveTunnel == ActiveTunnelCount <= 1

C7_Witness ==
    \E t, u \in ConcCallers :
        /\ t # u
        /\ IsSome(loc[t].active)
        /\ pc[u] = "c_store"

IdleDisconnectStep(t) ==
    /\ pc[t] = "d_take"
    /\ ~loc[t].inConnect
    /\ TUNNEL = None
    /\ pc'[t] # pc[t]

\* C9: a disconnect that finds no record returns Ok in that step, with no stop signal
\* sent, no route command run and the table, cell, devices and threads unchanged; and
\* after any disconnect the cell is empty, so a second disconnect is such a call
C9_DisconnectIdempotent ==
    /\ [](\A t \in SeqCallers :
             (last \in {"disconnect", "disconnect_idle"} /\ pc[t] \in {"idle", "d_take"})
                 => TUNNEL = None)
    /\ [][\A t \in SeqCallers :
             IdleDisconnectStep(t)
                 => /\ pc'[t] = "idle"
                    /\ ret'[t] = RetOk("disconnect")
                    /\ UNCHANGED <<table, TUNNEL, tuns, pump, chan, lock>>]_vars

C9_Witness ==
    /\ ret[1] = RetOk("disconnect")
    /\ last = "disconnect_idle"
    /\ table # {}

\* C10: whatever the stop-signal send and the route deletions did, a disconnect that
\* returns returns Ok, and the cell is empty then
C10_DisconnectInfallible ==
    \A t \in SeqCallers :
        ret[t].fn = "disconnect" => (ret[t].ok /\ TUNNEL = None)

C10_Witness ==
    /\ ret[1] = RetOk("disconnect")
    /\ last = "disconnect"
    /\ HalfRoutes \cap table # {}

\* C12: a pump loop that has started stops running only in a step taken at the select!
\* with the stop channel resolved; no step of a timer, TUN or UDP arm, whatever its
\* outcome, ends it
C12_OnlyStopEndsLoop ==
    [][\A i \in Ids :
          (pump[i] = "looping" /\ pump'[i] # "looping")
              => (io[i].at = "select" /\ chan[i].tx \in {"sent", "dropped"})]_vars

C12_Witness ==
    /\ pump[1] = "looping"
    /\ io[1].at = "select"
    /\ io[1].did = "read_err"
    /\ chan[1].tx = "held"

\* the pump loop of tunnel i has returned
PumpGone(i) == pump[i] \in {"exited", "none"}

HighestReady(i) ==
    IF chan[i].tx \in {"sent", "dropped"} THEN "stop"
    ELSE IF io[i].timer THEN "timer"
    ELSE IF io[i].tun # "none" THEN "tun"
    ELSE IF io[i].udp # "none" THEN "udp"
    ELSE "none"

\* C14: a step of a running pump loop at its select! handles the highest-priority
\* ready source: it enters the timer, TUN or UDP arm only if that arm is the highest
\* ready one (so never with the stop signal pending), and it leaves the loop only if
\* the stop signal is
C14_SelectByPriority ==
    [][\A i \in Ids :
          (pump[i] = "looping" /\ io[i].at = "select")
              => /\ io'[i].at # "select" => io'[i].at = HighestReady(i)
                 /\ pump'[i] # "looping" => HighestReady(i) = "stop"]_vars

C14_Witness ==
    /\ pump[1] = "looping"
    /\ io[1].at = "timer"
    /\ io[1].tun = "packet"
    /\ io[1].udp = "datagram"

\* caller t is between the first and the last routing or pump-thread effect of its
\* call: in disconnect's stop and route removal, or in connect's route installation
\* and spawn up to the store of the record
InRouteSection(t) == pc[t] \in {"d_stop", "d_routes", "c_pin", "c_routes", "c_store"}

\* C11: concurrent calls are serialised by the mutex, connect holding it across route
\* installation and spawn: no two calls are in their route sections at once
C11_Serialised ==
    \A t, u \in ConcCallers : t # u => ~(InRouteSection(t) /\ InRouteSection(u))

\* the step of connect that caller t's call is at
Doing(t) ==
    IF pc[t] \in {"d_take", "d_stop", "d_routes"} THEN "disconnect"
    ELSE IF pc[t] = "c_parse" THEN "parse"
    ELSE IF pc[t] = "c_keys" THEN "engine"
    ELSE IF pc[t] = "c_gateway" THEN "gateway"
    ELSE IF pc[t] = "c_tun" THEN "tun"
    ELSE IF pc[t] = "c_pin" \/ (pc[t] = "c_routes" /\ loc[t].addTodo # <<>>) THEN "routes"
    ELSE IF pc[t] = "c_routes" THEN "spawn"
    ELSE IF pc[t] = "c_store" THEN "store"
    ELSE "none"

\* the place of step x in the sequence order, 0 if it is not in it
Place(order, x) ==
    IF \E k \in 1..Len(order) : order[k] = x
    THEN CHOOSE k \in 1..Len(order) : order[k] = x
    ELSE 0

\* a connect call begins with the first step of order and moves from each step to the
\* one after it
StepsFollow(order) ==
    \A t \in SeqCallers :
        /\ (~loc[t].inConnect /\ loc'[t].inConnect) => Doing(t)' = order[1]
        /\ (loc[t].inConnect /\ loc'[t].inConnect /\ Doing(t)' # Doing(t))
               => Place(order, Doing(t)') = Place(order, Doing(t)) + 1

\* C15 as stated: parse; disconnect; engine; gateway; TUN; routes; spawn; store
C15_ClaimedOrder ==
    [][StepsFollow(<<"parse", "disconnect", "engine", "gateway", "tun", "routes",
                     "spawn", "store">>)]_vars

\* what a connect call has done so far fits the step it is at
EffectsFitStep(t) ==
    /\ Doing(t) # "disconnect" => (loc[t].active = None /\ lock # t)
    /\ loc[t].endpoint # <<>> => Doing(t) \notin {"disconnect", "parse"}
    /\ IsSome(loc[t].gateway) => Doing(t) \in {"tun", "routes", "spawn", "store"}
    /\ loc[t].id \in tuns => Doing(t) \in {"routes", "spawn", "store"}
    /\ loc[t].adds # <<>> => Doing(t) \in {"routes", "spawn", "store"}
    /\ pump[loc[t].id] # "none" => Doing(t) = "store"

\* C15 amended: connect performs its steps in the order disconnect; parse; engine;
\* gateway; TUN; routes; spawn; store, each starting only after the previous finished
C15_CodeOrder ==
    /\ [](\A t \in SeqCallers : loc[t].inConnect => EffectsFitStep(t))
    /\ [][StepsFollow(<<"disconnect", "parse", "engine", "gateway", "tun", "routes",
                        "spawn", "store">>)]_vars

C15_Witness ==
    /\ pc[1] = "c_store"
    /\ IsSome(loc[1].prior)
    /\ pump[loc[1].id] = "looping"
    /\ Len(loc[1].adds) = 3

\* caller t's connect call returns an error in this step
ConnectErrs(t) == ret'[t].fn = "connect" /\ ~ret'[t].ok

\* C16: the routing step of connect makes the call fail exactly when AllowedIPs contain
\* 0.0.0.0/0 and no gateway was discovered: it raises an error only then, and then its
\* first step raises the no-gateway error
C16_RoutingErrorIff ==
    [][\A t \in SeqCallers :
          /\ (ConnectErrs(t) /\ pc[t] \in {"c_pin", "c_routes"})
                 => (IsFullTunnel(loc[t].allowed_ips) /\ loc[t].gateway = None)
          /\ (pc[t] = "c_pin" /\ pc'[t] # "c_pin" /\ NoGatewayFullTunnel(t))
                 => (ConnectErrs(t) /\ ret'[t].err = NO_GATEWAY_ERROR)]_vars

\* C17: for the same arguments the three platform builds of setup_routes issue the same
\* route additions in the same order and return the same outcome, and the three builds
\* of remove_routes delete the same routes
C17_PlatformsAgree ==
    \A p, q \in Platforms :
        /\ (IsSome(output[p].setup) /\ IsSome(output[q].setup))
               => output[p].setup = output[q].setup
        /\ (IsSome(output[p].remove) /\ IsSome(output[q].remove))
               => output[p].remove = output[q].remove

\* a section header line, as the parser's reader recognises one
IsHeader(l) == Trim(l) # <<>> /\ Head(Trim(l)) = "["

\* line l assigns key: not blank, not a comment, not a header, "key = .."
IsAssign(l, key) ==
    /\ Trim(l) # <<>>
    /\ Head(Trim(l)) \notin {"#", "["}
    /\ IsSome(SplitOnce(Trim(l), "="))
    /\ Trim(Unwrap(SplitOnce(Trim(l), "="))[1]) = key

\* conf holds an assignment of key whose nearest header above is section
HasAssignment(conf, section, key) ==
    \E k \in 1..Len(conf) :
        /\ IsAssign(conf[k], key)
        /\ \E h \in 1..(k - 1) :
              /\ IsHeader(conf[h])
              /\ Trim(conf[h]) = section
              /\ \A j \in (h + 1)..(k - 1) : ~IsHeader(conf[j])

\* the four required fields, each with its section, key and missing-field message
RequiredFields ==
    { [section |-> S_Interface, key |-> K_PrivateKey,
       msg |-> "Config missing [Interface] PrivateKey"],
      [section |-> S_Interface, key |-> K_Address,
       msg |-> "Config missing [Interface] Address"],
      [section |-> S_Peer, key |-> K_PublicKey, msg |-> "Config missing [Peer] PublicKey"],
      [section |-> S_Peer, key |-> K_Endpoint, msg |-> "Config missing [Peer] Endpoint"] }

MissingFields(conf) == {f \in RequiredFields : ~HasAssignment(conf, f.section, f.key)}

Parsed == Unwrap(output.parsed)

\* C18: when the text lacks PrivateKey or Address under [Interface], or PublicKey or
\* Endpoint under [Peer], parse returns an error whose message names a missing field;
\* a successful parse had all four assignments
C18_MissingFieldErrors ==
    (IsSome(output.parsed) /\ MissingFields(input) # {})
        => /\ ~Parsed.ok
           /\ \E f \in MissingFields(input) : Parsed.err = f.msg

\* parse has refused a text that lacks only its Address line
C18_Witness ==
    /\ IsSome(output.parsed)
    /\ ~Parsed.ok
    /\ Parsed.err = "Config missing [Interface] Address"
    /\ HasAssignment(input, S_Interface, K_PrivateKey)
    /\ HasAssignment(input, S_Peer, K_PublicKey)
    /\ HasAssignment(input, S_Peer, K_Endpoint)

\* C19: parse succeeds only if PrivateKey and the peer PublicKey each decode from
\* base64 to exactly 32 bytes
C19_ParseChecksKeys ==
    (IsSome(output.parsed) /\ Parsed.ok)
        => /\ decode_key(Parsed.val.private_key_b64).ok
           /\ decode_key(Parsed.val.server_public_key_b64).ok

\* C20: parse succeeds only if the Endpoint value is a literal IPv4 address with a
\* port, so every parsed config has an IPv4 endpoint
C20_EndpointIsIpv4 ==
    (IsSome(output.parsed) /\ Parsed.ok)
        => /\ Parsed.val.endpoint.family = "v4"
           /\ \E e \in EndpointTexts :
                 /\ IsSome(ParseSocketAddrV4(e))
                 /\ HasAssignment(input, S_Peer, K_Endpoint)
                 /\ \E k \in 1..Len(input) : input[k] = Line(K_Endpoint, e)

\* C21: parsing the rendered client text succeeds and gives back the private key, the
\* public key, the endpoint address and port that were rendered, with address 10.8.0.2,
\* DNS 1.1.1.1, allowed_ips [0.0.0.0/0] and keepalive 25
C21_RenderParseRoundTrip ==
    IsSome(output.parsed)
        => /\ Parsed.ok
           /\ Parsed.val.private_key_b64 = input.priv
           /\ Parsed.val.server_public_key_b64 = input.pub
           /\ Parsed.val.endpoint = [family |-> "v4", ip |-> input.ip, port |-> input.port]
           /\ Parsed.val.vpn_address = <<"1", "0", ".", "8", ".", "0", ".", "2">>
           /\ Parsed.val.dns = Some(<<"1", ".", "1", ".", "1", ".", "1">>)
           /\ Parsed.val.allowed_ips = <<FULL_TUNNEL>>
           /\ Parsed.val.persistent_keepalive = Some(25)

\* a text with distinct keys, the highest address and the highest port has been parsed
C21_Witness ==
    /\ IsSome(output.parsed)
    /\ Parsed.ok
    /\ input.priv # input.pub
    /\ input.ip = <<255, 255, 255, 255>>
    /\ input.port = U16Max

\* the values assigned to key in conf by lines whose nearest header above is section
AssignedValues(conf, section, key) ==
    { Trim(Unwrap(SplitOnce(Trim(conf[k]), "="))[2]) :
          k \in { n \in 1..Len(conf) :
                      /\ IsAssign(conf[n], key)
                      /\ \E h \in 1..(n - 1) :
                            /\ IsHeader(conf[h])
                            /\ Trim(conf[h]) = section
                            /\ \A j \in (h + 1)..(n - 1) : ~IsHeader(conf[j]) } }

\* the PostUp and PostDown lines of conf
RuleLines(conf) ==
    {k \in 1..Len(conf) : IsAssign(conf[k], K_PostUp) \/ IsAssign(conf[k], K_PostDown)}

ServerLines == Lines(Unwrap(output.server))

\* the server text has one [Interface] and one [Peer] header, the fixed address, the
\* listen port and the server private key under [Interface], the client public key
\* and AllowedIPs = 10.8.0.2/32 under [Peer], and n PostUp/PostDown rules
ServerConfigShape(n) ==
    /\ {Trim(ServerLines[k]) : k \in {j \in 1..Len(ServerLines) : IsHeader(ServerLines[j])}}
           = {S_Interface, S_Peer}
    /\ Cardinality({j \in 1..Len(ServerLines) : IsHeader(ServerLines[j])}) = 2
    /\ ServerLines[1] = S_Interface
    /\ AssignedValues(ServerLines, S_Interface, K_Address) = {<<"1", "0", ".", "8", ".", "0", ".", "1", "/", "2", "4">>}
    /\ AssignedValues(ServerLines, S_Interface, K_ListenPort) = {FormatDecimal(input.port)}
    /\ AssignedValues(ServerLines, S_Interface, K_PrivateKey) = {input.priv}
    /\ AssignedValues(ServerLines, S_Peer, K_PublicKey) = {input.pub}
    /\ AssignedValues(ServerLines, S_Peer, K_AllowedIPs) = {<<"1", "0", ".", "8", ".", "0", ".", "2", "/", "3", "2">>}
    /\ AssignedValues(ServerLines, S_Peer, K_PrivateKey) = {}
    /\ AssignedValues(ServerLines, S_Interface, K_PublicKey) = {}
    /\ Cardinality(RuleLines(ServerLines)) = n
    /\ \A k \in RuleLines(ServerLines) :
          \E h \in 1..(k - 1) :
              /\ ServerLines[h] = S_Interface
              /\ \A j \in (h + 1)..(k - 1) : ~IsHeader(ServerLines[j])

\* C25: the rendered server text has an [Interface] section with address 10.8.0.1/24,
\* the listen port, the server private key and four NAT setup/teardown rules, and one
\* [Peer] section with the client public key and AllowedIPs = 10.8.0.2/32
C25_ServerConfigFourRules == IsSome(output.server) => ServerConfigShape(4)

\* C25, amended: as above with six rules, three PostUp and three PostDown
C25_ServerConfigSixRules ==
    IsSome(output.server)
        => /\ ServerConfigShape(6)
           /\ Cardinality({k \in RuleLines(ServerLines) : IsAssign(ServerLines[k], K_PostUp)}) = 3
           /\ Cardinality({k \in RuleLines(ServerLines) : IsAssign(ServerLines[k], K_PostDown)}) = 3

\* a server text with distinct keys and a non-default port has been rendered
C25_Witness ==
    /\ IsSome(output.server)
    /\ input.priv # input.pub
    /\ input.port = 12345

\* C22: decode_key gives back every 32-byte value from its base64 text, and returns an
\* error for every text that is not the base64 text of a 32-byte value
C22_DecodeInvertsEncode ==
    IsSome(output.key)
        => /\ (input.kind = "bytes" /\ Len(input.val) = KeyLen)
                  => (Unwrap(output.key).ok /\ Unwrap(output.key).val = input.val)
           /\ (input.kind = "bytes" /\ Len(input.val) # KeyLen) => ~Unwrap(output.key).ok
           /\ (input.kind = "text" /\ input.val \in BadKeyTexts) => ~Unwrap(output.key).ok
           /\ Unwrap(output.key).ok
                  => /\ Len(Unwrap(output.key).val) = KeyLen
                     /\ Base64Encode(Unwrap(output.key).val) = Unwrap(output.text)

\* a 32-byte value with mixed bytes has been encoded and decoded
C22_Witness ==
    /\ IsSome(output.key)
    /\ input.kind = "bytes"
    /\ input.val = Ramp(KeyLen, 97, 37)
    /\ Unwrap(output.key).ok

\* C23: the parsed allowed_ips is the list of the elements of the comma-separated
\* AllowedIPs value, in input order, each without its surrounding blanks
C23_AllowedIpsInOrder ==
    IsSome(output.parsed) => (Parsed.ok /\ Parsed.val.allowed_ips = input.elems)

\* three different padded elements have been parsed
C23_Witness ==
    /\ IsSome(output.parsed)
    /\ input.elems = <<FULL_TUNNEL, SplitCidrs, <<":", ":", "/", "0">>>>
    /\ input.before = <<" ">>
    /\ input.after = <<"\t", " ">>

\* C24: a PersistentKeepalive text that is not a u16 leaves parse successful with no
\* keepalive, and a text denoting the u16 v gives Some(v)
C24_KeepaliveNeverFails ==
    IsSome(output.parsed)
        => (Parsed.ok /\ Parsed.val.persistent_keepalive = input.keepalive.value)

\* a text with the keepalive 65536, one beyond u16, has been parsed
C24_Witness ==
    /\ IsSome(output.parsed)
    /\ input.keepalive.text = Some(<<"6", "5", "5", "3", "6">>)
    /\ Parsed.val.persistent_keepalive = None

\* the resources the saved state records
Recorded == IF saved = None THEN {} ELSE TeardownTargets(Unwrap(saved).fields)

\* C26: when a deploy has failed, every resource it created is recorded in the saved
\* state, and a destroy whose deletions all succeed leaves no resource behind
C26_CreatedIsRecorded ==
    /\ dep.result = "deploy_err" => cloud \subseteq Recorded
    /\ dep.result = "destroyed" => cloud = {}

Loop(r) == <<r.at, r.did, r.data_slice>>

\* C28: for a received datagram decapsulate is called first with the datagram and then
\* with empty input; each result to write or send is followed by another call; Done or
\* an error ends the handling of that datagram and the loop goes on at its select
C28_DecapsulateUntilDone ==
    [][\A i \in Ids :
          /\ (io[i].at = "udp" /\ io'[i].at = "flush") => io'[i].data_slice = "datagram"
          /\ (io[i].at = "flush" /\ pump'[i] = "looping" /\ Loop(io'[i]) # Loop(io[i]))
                 => /\ io'[i].did \in {"to_tunnel", "to_tunnel_write_err", "to_network",
                                       "to_network_send_err"}
                        => (io'[i].at = "flush" /\ io'[i].data_slice = "empty")
                    /\ io'[i].did \in {"done", "decap_err"} => io'[i].at = "select"
          /\ (io[i].at = "flush" /\ pump[i] = "looping") => pump'[i] = "looping"]_vars

\* a second result of one datagram has been written to the TUN, after a first one
C28_Witness ==
    /\ pump[1] = "looping"
    /\ io[1].at = "flush"
    /\ io[1].data_slice = "empty"
    /\ io[1].did = "to_tunnel"

\* xs lists 1, 2, .. in order
InArrivalOrder(xs) == \A k \in 1..Len(xs) : xs[k] = k

\* ys keeps the order of xs: it is increasing and holds only elements of xs
KeepsOrder(ys, xs) ==
    /\ \A k \in 1..Len(ys) : \E n \in 1..Len(xs) : xs[n] = ys[k]
    /\ \A k \in 1..Len(ys) : \A n \in 1..Len(ys) : k < n => ys[k] < ys[n]

CapturesGateway(t) == pc[t] = "c_gateway" /\ pc'[t] = "c_tun"

\* the routes through the TUN device that are installed
TunRoutes(tbl) == {r \in tbl : r.dev = Some(TUN_NAME)}

\* the next hop of the host's own default route, if it has one
RealNextHop(tbl) ==
    IF ViaRoute(DEFAULT, HostGateway) \in tbl THEN Some(HostGateway) ELSE None

\* the call has added no route when it captures the gateway
C30_CaptureBeforeOwnRoutes ==
    [][\A t \in SeqCallers : CapturesGateway(t) => loc[t].adds = <<>>]_vars

\* a captured value is the next hop of the host's own default route, never a route
\* through the TUN device
C30_CaptureIsRealNextHop ==
    [][\A t \in SeqCallers :
          (CapturesGateway(t) /\ IsSome(loc'[t].gateway))
              => loc'[t].gateway = RealNextHop(table)]_vars

\* C30: in every connect the gateway is captured before the call adds any route and
\* while no route of a previous tunnel is installed, so that a captured value is the
\* next hop of the host's own default route
C30_GatewayBeforeRoutes ==
    [][\A t \in SeqCallers :
          CapturesGateway(t)
              => /\ loc[t].adds = <<>>
                 /\ TunRoutes(table) = {}
                 /\ IsSome(loc'[t].gateway) => loc'[t].gateway = RealNextHop(table)]_vars

\* the AllowedIPs entries other than 0.0.0.0/0, in list order
OtherEntries(allowed_ips) == SelectSeq(allowed_ips, LAMBDA a : a # FULL_TUNNEL)

\* the additions of adds that route a CIDR other than the two halves via the TUN
OtherTunAdds(adds) ==
    SelectSeq(adds, LAMBDA r : r.dev = Some(TUN_NAME) /\ r.dst \notin {HALF_LOW, HALF_HIGH})

\* in adds no route via the TUN comes before the endpoint pin
PinFirst(adds) ==
    \A k \in 1..Len(adds) : IsSome(adds[k].via) => \A n \in 1..(k - 1) : IsSome(adds[n].via)

\* a completed install on platform p added one TUN route per entry other than
\* 0.0.0.0/0, in list order and after the endpoint pin
RouteForEachEntryOn(p) ==
    (IsSome(output[p].setup) /\ Unwrap(output[p].setup).ok)
        => /\ OtherTunAdds(Unwrap(output[p].setup).adds)
                  = DevRoutes(OtherEntries(input.allowed_ips))
           /\ PinFirst(Unwrap(output[p].setup).adds)

\* C31: for every AllowedIPs entry other than 0.0.0.0/0 the install adds exactly one
\* route for that CIDR via the TUN interface, in list order and after the endpoint pin
C31_RouteForEachEntry == \A p \in Platforms : RouteForEachEntryOn(p)

\* the linux build does so
C31_RouteForEachEntryLinux == RouteForEachEntryOn("linux")

\* the routes a full-tunnel install of record a runs an addition for
FullTunnelPlan(a) ==
    (IF IsSome(a.gateway) THEN {ViaRoute(a.server_ip, Unwrap(a.gateway))} ELSE {})
        \cup {DevRoute(HALF_LOW, TUN_NAME), DevRoute(HALF_HIGH, TUN_NAME)}

\* is_active has just returned true to caller t
ReportsActive(t) == ret[t].fn = "is_active" /\ ret[t].val

\* the pump thread of the tunnel in the cell was spawned and every route addition of
\* its install has run
ActiveInstalled ==
    /\ IsSome(TUNNEL)
    /\ pump[Unwrap(TUNNEL).id] # "none"
    /\ FullTunnelPlan(Unwrap(TUNNEL)) \subseteq routed[Unwrap(TUNNEL).id].adds

\* whenever is_active returns true the install of the tunnel in the cell has completed
\* and its pump thread has been spawned
C32_ActiveAfterInstall ==
    \A t \in ConcCallers : ReportsActive(t) => ActiveInstalled

\* C32: whenever is_active returns true, the route installation of the active tunnel
\* has completed and its pump loop has been spawned, and none of its routes has been
\* removed since, under any interleaving with connect and disconnect
C32_ActiveRoutesWhole ==
    \A t \in ConcCallers :
        ReportsActive(t) => (ActiveInstalled /\ ~routed[Unwrap(TUNNEL).id].cut)

\* C33: is_active returns true only if the pump thread of the tunnel in the cell is
\* alive; it never returns true after that thread's loop has exited or returned early
C33_ActiveMeansPumpAlive ==
    \A t \in SeqCallers :
        ReportsActive(t)
            => (IsSome(TUNNEL) /\ pump[Unwrap(TUNNEL).id] \in {"starting", "looping"})

\* the causes of a failed TUN creation and the OS error texts that tell them
TunCauses == {"permission", "no_device", "untrusted_dll", "other"}

CauseOf(os) ==
    IF os \in {"Operation not permitted", "Access is denied"} THEN "permission"
    ELSE IF os \in {"No such file", "os error 2"} THEN "no_device"
    ELSE IF os \in {"not signed", "not trusted", "Signer"} THEN "untrusted_dll"
    ELSE "other"

\* the error each cause is to be reported with
ErrorOfCause(c) ==
    IF c = "permission" THEN "Cannot create TUN device - permission denied"
    ELSE IF c = "no_device" THEN "Cannot create TUN device - /dev/net/tun not found"
    ELSE IF c = "untrusted_dll"
    THEN "Cannot create TUN device - the wintun.dll present is not accepted"
    ELSE "Failed to create TUN device"

\* caller t's connect returns an error from its TUN creation in this step
TunCreationFails(t) == pc[t] = "c_tun" /\ ret'[t].fn = "connect" /\ ~ret'[t].ok

RunningPumps == {i \in Ids : pump[i] \in {"starting", "looping"}}

\* C36: at any instant at most one pump loop is running: no connect creates a TUN
\* device or spawns a pump loop while a pump loop spawned earlier has not exited
C36_OnePumpLoop ==
    [][/\ Cardinality(RunningPumps') <= 1
       /\ \A t \in SeqCallers :
             (loc[t].id \notin tuns /\ loc[t].id \in tuns') => RunningPumps = {}]_vars

\* the step is run(): the app process starts
Starts == ~app.up /\ app'.up

\* the persisted status, "NotDeployed" when there is no state file
Status(file) == IF file = None THEN "NotDeployed" ELSE Unwrap(file).status

\* a timer is spawned only for a persisted Deployed state with a deadline to come
TimersForFuture ==
    \A tm \in app'.timers :
        /\ Status(saved') = "Deployed"
        /\ Unwrap(saved').auto_destroy_at = Some(tm.at)
        /\ tm.at > app.now

\* C37: after the startup recovery of run() the persisted status is not Deploying or
\* Destroying: a stored Deploying has become Failed, a stored Destroying has become
\* Deployed with auto_destroy_at cleared, and a timer is spawned only for a Deployed
\* state whose auto_destroy_at is still to come
C37_StartupRecovers ==
    [][Starts =>
          /\ Status(saved') \notin {"Deploying", "Destroying"}
          /\ Status(saved) = "Deploying" => Status(saved') = "Failed"
          /\ Status(saved) = "Destroying" =>
                Status(saved') = "Deployed" /\ Unwrap(saved').auto_destroy_at = None
          /\ TimersForFuture]_vars

\* C37, the last part alone
C37_TimerOnlyForFuture == [][Starts => TimersForFuture]_vars

\* the step is a timer's call of destroy_vpn_internal that goes on to the teardown
TimerDestroys == dep'.cmd = "destroy" /\ dep'.by = "timer" /\ dep.cmd # "destroy"

\* the step is a timer firing
Fires == app.up /\ app'.up /\ app'.timers # app.timers /\ app'.timers \subseteq app.timers

\* C38: a timer destroys only the deployment it was scheduled for, and a timer that
\* fires when the persisted status is not Deployed destroys nothing
C38_TimerDestroysOwn ==
    [][/\ TimerDestroys => Unwrap(saved).gen = dep'.timer
       /\ (Fires /\ Status(saved) # "Deployed") => UNCHANGED <<cloud, saved>>]_vars

\* C38, the second part alone
C38_NotDeployedDestroysNothing ==
    [][(Fires /\ Status(saved) # "Deployed") => UNCHANGED <<cloud, saved>>]_vars

\* the section line i of conf stands under: the last header before it, <<>> with none
SectionAt(conf, i) ==
    LET hs == {j \in 1..(i - 1) : IsHeader(conf[j])}
    IN  IF hs = {} THEN <<>> ELSE Trim(conf[CHOOSE j \in hs : \A k \in hs : k <= j])

\* line i of conf assigns: it is not blank, no comment, no header, and holds `=`
IsAssignment(conf, i) ==
    /\ Trim(conf[i]) # <<>>
    /\ Head(Trim(conf[i])) \notin {"#", "["}
    /\ \E k \in 1..Len(conf[i]) : conf[i][k] = "="

\* the text before and the text after the first `=` of line i, trimmed
KeyOf(conf, i) ==
    LET l == Trim(conf[i])
        e == CHOOSE k \in 1..Len(l) : l[k] = "=" /\ \A j \in 1..(k - 1) : l[j] # "="
    IN  Trim(SubSeq(l, 1, e - 1))

ValOf(conf, i) ==
    LET l == Trim(conf[i])
        e == CHOOSE k \in 1..Len(l) : l[k] = "=" /\ \A j \in 1..(k - 1) : l[j] # "="
    IN  Trim(SubSeq(l, e + 1, Len(l)))

\* the lines of conf that assign key under section
Assigning(conf, section, key) ==
    {i \in 1..Len(conf) :
        IsAssignment(conf, i) /\ KeyOf(conf, i) = key /\ SectionAt(conf, i) = section}

\* the value the last assignment of key under section gives, None with no such line
LastValue(conf, section, key) ==
    LET as == Assigning(conf, section, key)
    IN  IF as = {} THEN None ELSE Some(ValOf(conf, CHOOSE i \in as : \A k \in as : k <= i))

\* the locals of parse after its loop over the lines of the input
Locals == ParseLines(ParseStart, input)

\* C34: a field is populated only by an assignment of its key under its own section,
\* [Interface] for PrivateKey, Address and DNS, [Peer] for PublicKey, Endpoint,
\* AllowedIPs and PersistentKeepalive; assignments before any header or under another
\* section, blank lines, comments and lines without `=` change no field, and each
\* header replaces the current section
C34_OnlyUnderOwnSection ==
    IsSome(output.parsed) =>
        /\ Locals.private_key = LastValue(input, S_Interface, K_PrivateKey)
        /\ Locals.dns = LastValue(input, S_Interface, K_DNS)
        /\ IsSome(Locals.address) <=> IsSome(LastValue(input, S_Interface, K_Address))
        /\ Locals.server_public_key = LastValue(input, S_Peer, K_PublicKey)
        /\ Locals.endpoint_str = LastValue(input, S_Peer, K_Endpoint)
        /\ Locals.allowed_ips # <<>> <=> Assigning(input, S_Peer, K_AllowedIPs) # {}
        /\ IsSome(Locals.keepalive) <=>
              IsSome(LastValue(input, S_Peer, K_PersistentKeepalive))
        /\ Parsed.ok =>
              /\ Parsed.val.private_key_b64 = Unwrap(Locals.private_key)
              /\ Parsed.val.server_public_key_b64 = Unwrap(Locals.server_public_key)
              /\ Parsed.val.dns = Locals.dns

\* the text was parsed with success, and it holds a PrivateKey assignment before any
\* header besides the one under [Interface]
C34_Witness ==
    /\ IsSome(output.parsed)
    /\ \E i, j \in 1..Len(input) :
          /\ IsAssignment(input, i) /\ KeyOf(input, i) = K_PrivateKey
          /\ SectionAt(input, i) = <<>>
          /\ IsAssignment(input, j) /\ KeyOf(input, j) = K_PrivateKey
          /\ SectionAt(input, j) = S_Interface
    /\ Parsed.ok

====
